---- MODULE Spec2Model ----
(***************************************************************************)
(* DebtTracker: the persistence pipeline.                                  *)
(*                                                                         *)
(*   renderer  App.tsx            Application State Cache (React state,    *)
(*                                refs, loadData, flushState, handlers)    *)
(*   renderer  storage service    State Gateway (loadAppState,             *)
(*                                persistAppState, buildDefaultState)      *)
(*   main      electron main      Record Store (withTransaction,           *)
(*                                loadAppState, applyChanges on SQLite)    *)
(*                                                                         *)
(* Spec       the cache and the gateway; one db:flush is BEGIN, then       *)
(*            COMMIT or ROLLBACK (transaction granularity).                *)
(* LiveSpec   Spec without the shutdown request, with the fairness of the  *)
(*            timer and of the storage process.                            *)
(* StoreSpec  the storage process alone, one SQL statement per step, with  *)
(*            db:load and db:flush handlers interleaving on one connection.*)
(***************************************************************************)
EXTENDS Integers, Sequences, FiniteSets, TLC

VARIABLES
  \* ---- renderer: React state of App (App.tsx 158-163, 175-184)
  accounts, currentAccountId, allTransactions, settings,
  deleteModalState, prefillData,
  \* ---- renderer: persistence guards (App.tsx 194-204)
  hasHydrated, lastPersistedRef, isDirtyRef, latestStateRef,
  \* ---- renderer: position of loadData and what it holds (App.tsx 208-249)
  loadPc, loadedState, healedState,
  \* ---- renderer: the page has been unloaded (beforeunload has run)
  unloaded,
  \* ---- identifier generator: number of ids handed out so far
  nextId,
  \* ---- number of handler calls the user may still start
  opsLeft,
  \* ---- db:flush calls issued and not yet settled in the renderer
  flights,
  \* ---- storage: committed content of the database file
  disk,
  \* ---- storage: content as seen through the single connection, whether a
  \*      transaction is open on it, and the handlers running (StoreSpec)
  conn, inTx, handlers,
  \* ---- history: the last operation that ran (for stating the claims)
  lastOp

vars == <<accounts, currentAccountId, allTransactions, settings,
          deleteModalState, prefillData,
          hasHydrated, lastPersistedRef, isDirtyRef, latestStateRef,
          loadPc, loadedState, healedState, unloaded, nextId, opsLeft, flights,
          disk, conn, inTx, handlers, lastOp>>

-----------------------------------------------------------------------------
(* Bounds of the model *)

\* ids the generator may hand out in one run
MaxIds == 2
\* db:flush calls that may be unsettled at once (the code sets no limit)
MaxFlights == 2
\* transactions held in memory at once
MaxTx == 2
\* accounts held in memory at once
MaxAccounts == 3
\* handler calls the user starts in one run (closing a dialog, by confirm,
\* cancel, save or close, ends the call that opened it)
MaxUserOps == 3
\* the same in a run of LiveSpec
MaxLiveOps == 2
\* requests the storage process serves in one run of StoreSpec
MaxRequests == 2

-----------------------------------------------------------------------------
(* Values *)

\* a missing (undefined / null / empty) id; falsy in `!t.id`
NoId == ""
\* an optional field that is absent (undefined)
Undefined == "undefined"
\* SQL NULL / JavaScript null for a text column
Null == "null"
\* optional array-valued field: absent, or present with a list
None == <<>>
Some(v) == <<v>>

IdPool == <<"g1", "g2", "g3", "g4", "g5", "g6">>
\* crypto.randomUUID(): an id never handed out before
generateId(n) == IdPool[n + 1]

DEFAULT_CATEGORIES ==
  <<"Personal", "Business", "Rent", "Dining", "Groceries", "Travel",
    "Utilities", "Emergency">>

Range(s) == {s[i] : i \in DOMAIN s}
Ids(s) == {s[i].id : i \in DOMAIN s}

-----------------------------------------------------------------------------
(* Record Store: rows, statements and reads (electron main process) *)

\* JSON.stringify / JSON.parse of the settings object kept under 'appSettings'.
\* A key the object lacks is lacking in the text too.
StringifySettings(st) ==
  [language |-> st.language, categories |-> Some(st.categories)]

\* INSERT INTO accounts ... [acc.id, acc.name, acc.avatarColor, acc.isDefault ? 1 : 0]
AccountRow(acc) ==
  [id |-> acc.id, name |-> acc.name,
   isDefault |-> IF acc.isDefault = "true" THEN 1 ELSE 0]

\* accounts.map(row => ({ ...row, isDefault: !!row.isDefault }))
AccountFromRow(row) ==
  [id |-> row.id, name |-> row.name,
   isDefault |-> IF row.isDefault # 0 THEN "true" ELSE "false"]

\* serializeTransactions: tags: t.tags ? JSON.stringify(t.tags) : null.
\* An array, empty or not, is truthy; only an absent tags field gives NULL.
serializeTags(tags) == IF tags # None THEN Some(tags[1]) ELSE None

\* The row bound by INSERT INTO transactions: an undefined dueDate binds NULL.
TransactionRow(t) ==
  [id |-> t.id, accountId |-> t.accountId, borrower |-> t.borrower,
   amount |-> t.amount, date |-> t.date,
   dueDate |-> IF t.dueDate = Undefined THEN Null ELSE t.dueDate,
   type |-> t.type, category |-> t.category,
   tags |-> serializeTags(t.tags)]

\* a read that leaves a NULL tags column absent
deserializeTagsAbsent(text) == text

\* deserializeTransactions: tags: row.tags ? JSON.parse(row.tags) : [].
\* The text "[]" is a non-empty string, hence truthy.
deserializeTags(text) == IF text # None THEN Some(text[1]) ELSE Some(<<>>)

TransactionFromRow(row) == [row EXCEPT !.tags = deserializeTags(row.tags)]

\* The statements of one applyChanges(state), in the order it awaits them.
AccountInserts(state) ==
  [i \in DOMAIN state.accounts |->
     [op |-> "insertAccount", row |-> AccountRow(state.accounts[i])]]
TransactionInserts(state) ==
  [i \in DOMAIN state.transactions |->
     [op |-> "insertTransaction", row |-> TransactionRow(state.transactions[i])]]
FlushStatements(state) ==
  <<[op |-> "deleteAccounts"]>>
  \o AccountInserts(state)
  \o <<[op |-> "setCurrentAccountId", value |-> Some(state.currentAccountId)],
       [op |-> "setAppSettings", value |-> Some(StringifySettings(state.settings))],
       [op |-> "deleteTransactions"]>>
  \o TransactionInserts(state)

\* id TEXT PRIMARY KEY: a second row with the same non-NULL id is refused.
StatementOk(d, st) ==
  CASE st.op = "insertAccount" ->
         st.row.id = NoId \/ st.row.id \notin Ids(d.accounts)
    [] st.op = "insertTransaction" ->
         st.row.id = NoId \/ st.row.id \notin Ids(d.transactions)
    [] OTHER -> TRUE

\* The content after one statement has run.
Exec(d, st) ==
  CASE st.op = "deleteAccounts" -> [d EXCEPT !.accounts = <<>>]
    [] st.op = "insertAccount" -> [d EXCEPT !.accounts = Append(@, st.row)]
    [] st.op = "setCurrentAccountId" -> [d EXCEPT !.currentAccountId = st.value]
    [] st.op = "setAppSettings" -> [d EXCEPT !.appSettings = st.value]
    [] st.op = "deleteTransactions" -> [d EXCEPT !.transactions = <<>>]
    [] st.op = "insertTransaction" -> [d EXCEPT !.transactions = Append(@, st.row)]

\* All statements of a list run in order; Failed as soon as one is refused.
Failed == [failed |-> TRUE]
RECURSIVE ExecAll(_, _)
ExecAll(d, stmts) ==
  IF stmts = <<>> THEN d
  ELSE IF ~StatementOk(d, Head(stmts)) THEN Failed
  ELSE ExecAll(Exec(d, Head(stmts)), Tail(stmts))

\* The body of applyChanges' transaction applied to content d.
ApplyBody(d, state) == ExecAll(d, FlushStatements(state))

\* SELECT * FROM transactions ORDER BY date DESC: rows by date, newest first,
\* rows of one date in insertion order.
RECURSIVE InsertByDateDesc(_, _)
InsertByDateDesc(row, sorted) ==
  IF sorted = <<>> THEN <<row>>
  ELSE IF Head(sorted).date >= row.date
       THEN <<Head(sorted)>> \o InsertByDateDesc(row, Tail(sorted))
       ELSE <<row>> \o sorted
RECURSIVE OrderByDateDesc(_)
OrderByDateDesc(rows) ==
  IF rows = <<>> THEN <<>>
  ELSE InsertByDateDesc(rows[Len(rows)], OrderByDateDesc(SubSeq(rows, 1, Len(rows) - 1)))

\* The four reads of the main process' loadAppState.
ReadAccounts(d) == [i \in DOMAIN d.accounts |-> AccountFromRow(d.accounts[i])]
ReadCurrentAccountId(d) ==
  IF d.currentAccountId # None THEN d.currentAccountId[1] ELSE Undefined
ReadTransactions(d) ==
  LET rows == OrderByDateDesc(d.transactions)
  IN [i \in DOMAIN rows |-> TransactionFromRow(rows[i])]
ReadSettings(d) ==
  IF d.appSettings # None THEN Some(d.appSettings[1]) ELSE None

\* What db:load answers when all four reads see the same content d.
MainLoadAppState(d) ==
  [accounts |-> ReadAccounts(d),
   currentAccountId |-> ReadCurrentAccountId(d),
   transactions |-> ReadTransactions(d),
   settings |-> ReadSettings(d)]

\* The content right after initializeDatabase and seedDefaults on a new file.
SeededDisk ==
  [accounts |-> <<[id |-> "default_account", name |-> "Main Account", isDefault |-> 1]>>,
   currentAccountId |-> Some("default_account"),
   transactions |-> <<>>,
   appSettings |-> None]

-----------------------------------------------------------------------------
(* State Gateway: renderer-side storage service *)

buildDefaultState ==
  [accounts |-> <<[id |-> "default_account", name |-> "Main Account",
                   isDefault |-> "true"]>>,
   currentAccountId |-> "default_account",
   transactions |-> <<>>,
   settings |-> [language |-> "zh", categories |-> DEFAULT_CATEGORIES]]

\* loadAppState, the object built from what db:load answered:
\*   accounts: state.accounts && state.accounts.length > 0 ? ... : defaults
\*   currentAccountId: state.currentAccountId || state.accounts?.[0]?.id || default
\*   settings: state.settings ? {...settings, categories: categories ?? DEFAULT} : default
NormalizeLoaded(raw) ==
  [accounts |-> IF Len(raw.accounts) > 0 THEN raw.accounts
                ELSE buildDefaultState.accounts,
   currentAccountId |->
     IF raw.currentAccountId \notin {Undefined, Null, NoId} THEN raw.currentAccountId
     ELSE IF Len(raw.accounts) > 0 /\ raw.accounts[1].id # NoId THEN raw.accounts[1].id
     ELSE buildDefaultState.currentAccountId,
   transactions |-> raw.transactions,
   settings |->
     IF raw.settings # None
     THEN [language |-> raw.settings[1].language,
           categories |-> IF raw.settings[1].categories # None
                          THEN raw.settings[1].categories[1]
                          ELSE DEFAULT_CATEGORIES]
     ELSE buildDefaultState.settings]

\* a load that hands the pointer on as normalised
EnsureCurrentAccountKept(n) == n

\* loadAppState: "Ensure current account is valid"
EnsureCurrentAccount(n) ==
  IF \E i \in DOMAIN n.accounts : n.accounts[i].id = n.currentAccountId
  THEN n
  ELSE [n EXCEPT !.currentAccountId = n.accounts[1].id]

\* loadAppState's branch `normalized.accounts.length === 0`
NeedsDefaults(n) == Len(n.accounts) = 0

-----------------------------------------------------------------------------
(* Application State Cache: helpers of App *)

Snapshot(acc, cur, txs, st) ==
  [accounts |-> acc, currentAccountId |-> cur, transactions |-> txs, settings |-> st]

\* JSON.stringify(snapshot): the members in the order the object literal
\* names them; two snapshots have the same text iff they agree member by member.
JSONstringify(snap) ==
  <<"accounts", snap.accounts, "currentAccountId", snap.currentAccountId,
    "transactions", snap.transactions, "settings", snap.settings>>

\* the React state as one snapshot object
ReactState == Snapshot(accounts, currentAccountId, allTransactions, settings)

\* a tracking that goes by the mutation call, not by the value
MarkDirtyByCall(serialized) == TRUE

\* "Track changes" effect: if (serialized !== lastPersistedRef.current) isDirtyRef.current = true
MarkDirty(serialized) ==
  IF serialized # lastPersistedRef THEN TRUE ELSE isDirtyRef

\* guards that let a forced flush through whether the cache is loaded or not
FlushProceedsForcedAnyway(hyd, force, dirty, serialized) ==
  force \/ (hyd /\ dirty /\ serialized # lastPersistedRef)

\* guards that take no account of force
FlushProceedsUnforced(hyd, force, dirty, serialized) ==
  hyd /\ dirty /\ serialized # lastPersistedRef

\* flushState's guards: true when it goes on to call persistAppState
\*   if (!hasHydrated.current) return;
\*   if (!force && (!isDirtyRef.current || serialized === lastPersistedRef.current)) return;
FlushProceeds(hyd, force, dirty, serialized) ==
  /\ hyd
  /\ ~(~force /\ (~dirty \/ serialized = lastPersistedRef))

Flight(snap, origin) ==
  [snapshot |-> snap, serialized |-> JSONstringify(snap), origin |-> origin,
   stage |-> "sent"]

\* flushState(force) run when the refs hold (latest, dirty): the db:flush calls
\* outstanding afterwards
flushState(force, latest, dirty) ==
  IF FlushProceeds(hasHydrated, force, dirty, JSONstringify(latest))
  THEN Append(flights, Flight(latest, "cache"))
  ELSE flights

\* The two effects that run after a render in which accounts, currentAccountId,
\* allTransactions or settings changed: track changes, then flush when dirty.
Effects(acc, cur, txs, st) ==
  IF ~hasHydrated
  THEN UNCHANGED <<latestStateRef, isDirtyRef, flights>>
  ELSE LET snap == Snapshot(acc, cur, txs, st)
           dirty == MarkDirty(JSONstringify(snap))
       IN /\ latestStateRef' = snap
          /\ isDirtyRef' = dirty
          /\ flights' = IF dirty THEN flushState(FALSE, snap, dirty) ELSE flights
          /\ Len(flights') <= MaxFlights

\* A handler that sets the four pieces of state to the given values.
SetState(acc, cur, txs, st) ==
  /\ accounts' = acc
  /\ currentAccountId' = cur
  /\ allTransactions' = txs
  /\ settings' = st
  /\ Effects(acc, cur, txs, st)

Op(name, arg) == [op |-> name, arg |-> arg]

\* ConfirmModal and TransactionModal cover the window while open.
UiFree == ~unloaded /\ ~deleteModalState.isOpen /\ ~prefillData.isOpen

\* the user starts one more handler call
UserOp == opsLeft > 0 /\ opsLeft' = opsLeft - 1

ClosedDeleteModal == [isOpen |-> FALSE, type |-> "TRANSACTION", targetId |-> NoId, targetName |-> ""]

-----------------------------------------------------------------------------
(* Inputs of the handlers *)

AccountNames == {"Trip"}
Languages == {"en", "zh"}
\* labels the user adds to or removes from settings.categories
EditableCategories == {"Travel"}

\* what TransactionModal's handleSubmit passes to onSave (without the id)
TxForms ==
  {[borrower |-> "bob", amount |-> 100, date |-> 1, dueDate |-> Undefined,
    type |-> "LEND", category |-> "Travel", tags |-> Some(<<>>)],
   [borrower |-> "bob", amount |-> 40, date |-> 2, dueDate |-> Undefined,
    type |-> "REPAYMENT", category |-> "Travel", tags |-> Some(<<"x">>)]}

\* the id member of what handleSubmit passes: initialData?.id, absent for a
\* new transaction; the handler is also given data that carries an id
SubmittedIds == {NoId, "t1"}
Submitted(form, id) ==
  [f \in DOMAIN form \cup {"id"} |-> IF f = "id" THEN id ELSE form[f]]

TxOf(form, id, accountId) ==
  [id |-> id, accountId |-> accountId, borrower |-> form.borrower,
   amount |-> form.amount, date |-> form.date, dueDate |-> form.dueDate,
   type |-> form.type, category |-> form.category, tags |-> form.tags]

ImportedAccount == [id |-> "x1", name |-> "Trip", isDefault |-> Undefined]

\* what the file parsers pass to onImport: accounts is None when the file has
\* no accounts member
ImportPayloads ==
  {[accounts |-> Some(<<ImportedAccount, ImportedAccount>>), transactions |-> <<>>],
   [accounts |-> None,
    transactions |-> <<[borrower |-> "ann", amount |-> 70, date |-> 3,
                        dueDate |-> Undefined, type |-> "LEND",
                        category |-> "Travel", tags |-> Some(<<>>),
                        id |-> "t1", accountId |-> Undefined]>>]}

-----------------------------------------------------------------------------
(* Application State Cache: account handlers *)

\* setCurrentAccountIdState(id): React skips the render, and with it the
\* effects, when the state is set to the value it has.
HandleSwitchAccount(id) ==
  /\ UiFree
  /\ UserOp
  /\ id \in Ids(accounts)
  /\ IF id = currentAccountId
     THEN UNCHANGED <<accounts, currentAccountId, allTransactions, settings,
                      latestStateRef, isDirtyRef, flights>>
     ELSE SetState(accounts, id, allTransactions, settings)
  /\ lastOp' = Op("switchAccount", id)
  /\ UNCHANGED <<deleteModalState, prefillData, hasHydrated, lastPersistedRef,
                 loadPc, loadedState, healedState, unloaded, nextId,
                 disk, conn, inTx, handlers>>

HandleCreateAccount(name) ==
  /\ UiFree
  /\ UserOp
  /\ nextId < MaxIds
  /\ Len(accounts) < MaxAccounts
  /\ LET newAccount == [id |-> generateId(nextId), name |-> name,
                        isDefault |-> Undefined]
     IN /\ SetState(Append(accounts, newAccount), newAccount.id,
                    allTransactions, settings)
        /\ lastOp' = Op("createAccount", newAccount.id)
  /\ nextId' = nextId + 1
  /\ UNCHANGED <<deleteModalState, prefillData, hasHydrated, lastPersistedRef,
                 loadPc, loadedState, healedState, unloaded,
                 disk, conn, inTx, handlers>>

HandleUpdateAccount(updatedAccount) ==
  /\ UiFree
  /\ UserOp
  /\ updatedAccount.id \in Ids(accounts)
  /\ SetState([i \in DOMAIN accounts |->
                 IF accounts[i].id = updatedAccount.id THEN updatedAccount
                 ELSE accounts[i]],
              currentAccountId, allTransactions, settings)
  /\ lastOp' = Op("updateAccount", updatedAccount.id)
  /\ UNCHANGED <<deleteModalState, prefillData, hasHydrated, lastPersistedRef,
                 loadPc, loadedState, healedState, unloaded, nextId,
                 disk, conn, inTx, handlers>>

\* "Prevent deleting the last account": alert and return, else open the modal.
RequestDeleteAccount(accountId) ==
  /\ UiFree
  /\ UserOp
  /\ accountId \in Ids(accounts)
  /\ IF Len(accounts) <= 1
     THEN /\ UNCHANGED deleteModalState
          /\ lastOp' = Op("deleteAccountRefused", accountId)
     ELSE /\ deleteModalState' = [isOpen |-> TRUE, type |-> "ACCOUNT",
                                  targetId |-> accountId, targetName |-> ""]
          /\ lastOp' = Op("requestDeleteAccount", accountId)
  /\ UNCHANGED <<accounts, currentAccountId, allTransactions, settings, prefillData,
                 hasHydrated, lastPersistedRef, isDirtyRef, latestStateRef,
                 loadPc, loadedState, healedState, unloaded, nextId, flights,
                 disk, conn, inTx, handlers>>

HandleUpdateSettings(newSettings) ==
  /\ UiFree
  /\ UserOp
  /\ SetState(accounts, currentAccountId, allTransactions, newSettings)
  /\ lastOp' = Op("updateSettings", newSettings.language)
  /\ UNCHANGED <<deleteModalState, prefillData, hasHydrated, lastPersistedRef,
                 loadPc, loadedState, healedState, unloaded, nextId,
                 disk, conn, inTx, handlers>>

\* SettingsView.handleAddCategory: a label already listed is not added again.
HandleAddCategory(newCategory) ==
  /\ newCategory \notin Range(settings.categories)
  /\ HandleUpdateSettings([settings EXCEPT !.categories = Append(@, newCategory)])

-----------------------------------------------------------------------------
(* Application State Cache: transaction handlers *)

\* the transactions of the active account (the `transactions` memo)
ActiveTransactions ==
  SelectSeq(allTransactions, LAMBDA t : t.accountId = currentAccountId)

\* transactions.filter(t => t.type === type)
OfType(txs, type) == SelectSeq(txs, LAMBDA t : t.type = type)

\* reduce((acc, t) => acc + t.amount, 0)
RECURSIVE SumAmounts(_)
SumAmounts(txs) ==
  IF txs = <<>> THEN 0
  ELSE SumAmounts(SubSeq(txs, 1, Len(txs) - 1)) + txs[Len(txs)].amount

\* a balance that does not go below zero
OutstandingClamped(totalLent, totalRepaid) ==
  IF totalLent > totalRepaid THEN totalLent - totalRepaid ELSE 0

\* const outstanding = totalLent - totalRepaid
Outstanding(totalLent, totalRepaid) == totalLent - totalRepaid

\* the `stats` memo over the transactions of the active account
stats ==
  LET totalLent == SumAmounts(OfType(ActiveTransactions, "LEND"))
      totalRepaid == SumAmounts(OfType(ActiveTransactions, "REPAYMENT"))
  IN [totalLent |-> totalLent, totalRepaid |-> totalRepaid,
      outstanding |-> Outstanding(totalLent, totalRepaid)]

\* the "new transaction" button: setPrefillData(undefined); setIsModalOpen(true)
OpenNewTransaction ==
  /\ UiFree
  /\ UserOp
  /\ prefillData' = [isOpen |-> TRUE, id |-> NoId]
  /\ lastOp' = Op("openNewTransaction", "")
  /\ UNCHANGED <<accounts, currentAccountId, allTransactions, settings,
                 deleteModalState, hasHydrated, lastPersistedRef, isDirtyRef,
                 latestStateRef, loadPc, loadedState, healedState, unloaded,
                 nextId, flights, disk, conn, inTx, handlers>>

\* handleEditTransaction(tx), from a list of the active account's transactions
HandleEditTransaction(tx) ==
  /\ UiFree
  /\ UserOp
  /\ tx \in Range(ActiveTransactions)
  /\ prefillData' = [isOpen |-> TRUE, id |-> tx.id]
  /\ lastOp' = Op("editTransaction", tx.id)
  /\ UNCHANGED <<accounts, currentAccountId, allTransactions, settings,
                 deleteModalState, hasHydrated, lastPersistedRef, isDirtyRef,
                 latestStateRef, loadPc, loadedState, healedState, unloaded,
                 nextId, flights, disk, conn, inTx, handlers>>

\* TransactionModal's onClose without a submit
CloseTransactionModal ==
  /\ ~unloaded
  /\ UNCHANGED opsLeft
  /\ prefillData.isOpen
  /\ prefillData' = [prefillData EXCEPT !.isOpen = FALSE]
  /\ lastOp' = Op("closeTransactionModal", "")
  /\ UNCHANGED <<accounts, currentAccountId, allTransactions, settings,
                 deleteModalState, hasHydrated, lastPersistedRef, isDirtyRef,
                 latestStateRef, loadPc, loadedState, healedState, unloaded,
                 nextId, flights, disk, conn, inTx, handlers>>

\* handleSaveTransaction, edit branch:
\*   allTransactions.map(t => t.id === id ? { ...data, id, accountId: t.accountId } : t)
EditedTransactions(id, data) ==
  [i \in DOMAIN allTransactions |->
     IF allTransactions[i].id = id
     THEN TxOf(data, id, allTransactions[i].accountId)
     ELSE allTransactions[i]]

\* a create that keeps the id the submitted data carries
CreatedWithSubmittedId(newId, data) ==
  <<TxOf(data, IF data.id # NoId THEN data.id ELSE newId, currentAccountId)>>
    \o allTransactions

\* handleSaveTransaction, create branch: const { id: _ignoredId, ...txData } =
\* data; [{ id: generateId(), accountId: currentAccountId, ...txData },
\* ...allTransactions]
CreatedTransactions(newId, data) ==
  <<TxOf(data, newId, currentAccountId)>> \o allTransactions

HandleSaveTransaction(data) ==
  /\ ~unloaded
  /\ UNCHANGED opsLeft
  /\ prefillData.isOpen
  /\ IF prefillData.id # NoId
     THEN /\ SetState(accounts, currentAccountId,
                      EditedTransactions(prefillData.id, data), settings)
          /\ lastOp' = Op("saveEdit", prefillData.id)
          /\ UNCHANGED nextId
     ELSE /\ nextId < MaxIds
          /\ Len(allTransactions) < MaxTx
          /\ SetState(accounts, currentAccountId,
                      CreatedTransactions(generateId(nextId), data), settings)
          /\ lastOp' = Op("saveNew", generateId(nextId))
          /\ nextId' = nextId + 1
  /\ prefillData' = [isOpen |-> FALSE, id |-> NoId]
  /\ UNCHANGED <<deleteModalState, hasHydrated, lastPersistedRef,
                 loadPc, loadedState, healedState, unloaded,
                 disk, conn, inTx, handlers>>

\* a map keyed by account and id: a record replaces one of the same id only
\* within its own account
MapSetWithinAccount(m, tx) ==
  IF \E i \in DOMAIN m : m[i].id = tx.id /\ m[i].accountId = tx.accountId
  THEN [i \in DOMAIN m |->
          IF m[i].id = tx.id /\ m[i].accountId = tx.accountId THEN tx ELSE m[i]]
  ELSE Append(m, tx)

\* a list that takes every record as a new entry
MapAppend(m, tx) == Append(m, tx)

\* Map.set(key, value): an existing key keeps its place, a new key goes last.
MapSet(m, tx) ==
  IF \E i \in DOMAIN m : m[i].id = tx.id
  THEN [i \in DOMAIN m |-> IF m[i].id = tx.id THEN tx ELSE m[i]]
  ELSE Append(m, tx)

\* new Map(allTransactions.map(t => [t.id, t]))
RECURSIVE MapOf(_)
MapOf(txs) ==
  IF txs = <<>> THEN <<>>
  ELSE MapSet(MapOf(SubSeq(txs, 1, Len(txs) - 1)), txs[Len(txs)])

\* ids handleImportTransactions generates for a list of imported transactions
MissingIds(txs) == Cardinality({i \in DOMAIN txs : txs[i].id = NoId})

\* importData.transactions.forEach(...) on the map, n ids handed out so far
RECURSIVE ImportInto(_, _, _)
ImportInto(m, txs, n) ==
  IF txs = <<>> THEN m
  ELSE LET tx == Head(txs)
           withAccount ==
             [tx EXCEPT !.accountId =
                IF tx.accountId \notin {Undefined, Null, NoId} THEN tx.accountId
                ELSE currentAccountId]
           finalTx == IF withAccount.id = NoId
                      THEN [withAccount EXCEPT !.id = generateId(n)]
                      ELSE withAccount
       IN ImportInto(MapSet(m, finalTx), Tail(txs),
                     IF withAccount.id = NoId THEN n + 1 ELSE n)

\* handleImportTransactions, step 1: accounts whose id is not among the
\* accounts held before the import are pushed
ImportedAccounts(importData) ==
  IF importData.accounts = None THEN accounts
  ELSE accounts \o SelectSeq(importData.accounts[1],
                             LAMBDA a : a.id \notin Ids(accounts))

\* handleImportTransactions(importData) when n ids have been handed out before
\* the call; op is recorded as the operation that ran
ImportWith(importData, n, op) ==
  /\ UiFree
  /\ UserOp
  /\ n + MissingIds(importData.transactions) <= MaxIds
  /\ LET updatedAccounts == ImportedAccounts(importData)
         mergedTransactions ==
           ImportInto(MapOf(allTransactions), importData.transactions, n)
     IN /\ Len(updatedAccounts) <= MaxAccounts
        /\ Len(mergedTransactions) <= MaxTx
        /\ SetState(updatedAccounts, currentAccountId, mergedTransactions, settings)
  /\ nextId' = n + MissingIds(importData.transactions)
  /\ lastOp' = op
  /\ UNCHANGED <<deleteModalState, prefillData, hasHydrated, lastPersistedRef,
                 loadPc, loadedState, healedState, unloaded,
                 disk, conn, inTx, handlers>>

HandleImportTransactions(importData) ==
  ImportWith(importData, nextId, Op("import", ""))

-----------------------------------------------------------------------------
(* Application State Cache: deletion handlers *)

OpenDeleteModal(type, targetId, targetName, op) ==
  /\ UiFree
  /\ UserOp
  /\ deleteModalState' = [isOpen |-> TRUE, type |-> type,
                          targetId |-> targetId, targetName |-> targetName]
  /\ lastOp' = Op(op, IF targetId # NoId THEN targetId ELSE targetName)
  /\ UNCHANGED <<accounts, currentAccountId, allTransactions, settings, prefillData,
                 hasHydrated, lastPersistedRef, isDirtyRef, latestStateRef,
                 loadPc, loadedState, healedState, unloaded, nextId, flights,
                 disk, conn, inTx, handlers>>

RequestDeleteTransaction(id) ==
  /\ id \in Ids(ActiveTransactions)
  /\ OpenDeleteModal("TRANSACTION", id, "", "requestDeleteTransaction")

RequestDeleteBorrower(name) ==
  /\ name \in {ActiveTransactions[i].borrower : i \in DOMAIN ActiveTransactions}
  /\ OpenDeleteModal("BORROWER", NoId, name, "requestDeleteBorrower")

RequestDeleteCategory(name) ==
  /\ name \in Range(settings.categories)
  /\ OpenDeleteModal("CATEGORY", NoId, name, "requestDeleteCategory")

RequestClearData ==
  OpenDeleteModal("ALL", NoId, "", "requestClearData")

\* ConfirmModal's onCancel: setDeleteModalState({ ...deleteModalState, isOpen: false })
CancelDelete ==
  /\ ~unloaded
  /\ UNCHANGED opsLeft
  /\ deleteModalState.isOpen
  /\ deleteModalState' = [deleteModalState EXCEPT !.isOpen = FALSE]
  /\ lastOp' = Op("cancelDelete", "")
  /\ UNCHANGED <<accounts, currentAccountId, allTransactions, settings, prefillData,
                 hasHydrated, lastPersistedRef, isDirtyRef, latestStateRef,
                 loadPc, loadedState, healedState, unloaded, nextId, flights,
                 disk, conn, inTx, handlers>>

\* performDelete, type ACCOUNT: accounts.filter(a => a.id !== targetId)
AccountsWithout(targetId) ==
  SelectSeq(accounts, LAMBDA a : a.id # targetId)

\* a deletion that does not cascade
TransactionsKept(targetId) == allTransactions

\* performDelete, type ACCOUNT: allTransactions.filter(t => t.accountId !== targetId)
TransactionsWithoutAccount(targetId) ==
  SelectSeq(allTransactions, LAMBDA t : t.accountId # targetId)

\* performDelete, type TRANSACTION
TransactionsWithoutId(targetId) ==
  SelectSeq(allTransactions, LAMBDA t : t.id # targetId)

\* a removal of the borrower's records from every account
TransactionsWithoutBorrowerAnywhere(targetName) ==
  SelectSeq(allTransactions, LAMBDA t : t.borrower # targetName)

\* performDelete, type BORROWER: only the borrower's records of the current account
TransactionsWithoutBorrower(targetName) ==
  SelectSeq(allTransactions,
            LAMBDA t : ~(t.borrower = targetName /\ t.accountId = currentAccountId))

\* performDelete, type ALL: only the current account's records
TransactionsOfOtherAccounts ==
  SelectSeq(allTransactions, LAMBDA t : t.accountId # currentAccountId)

\* a removal that leaves the list as it is
CategoriesKept(targetName) == settings.categories

\* performDelete, type CATEGORY
CategoriesWithout(targetName) ==
  SelectSeq(settings.categories, LAMBDA c : c # targetName)

\* performDelete (ConfirmModal's onConfirm). In the ACCOUNT branch
\* handleSwitchAccount(updatedAccounts[0].id) throws when no account is left:
\* the two state updates made before it stand, the modal is not closed.
PerformDelete ==
  /\ ~unloaded
  /\ UNCHANGED opsLeft
  /\ deleteModalState.isOpen
  /\ LET type == deleteModalState.type
         targetId == deleteModalState.targetId
         targetName == deleteModalState.targetName
     IN CASE type = "TRANSACTION" /\ targetId # NoId ->
               /\ SetState(accounts, currentAccountId,
                           TransactionsWithoutId(targetId), settings)
               /\ deleteModalState' = ClosedDeleteModal
               /\ lastOp' = Op("deleteTransaction", targetId)
          [] type = "BORROWER" /\ targetName # "" ->
               /\ SetState(accounts, currentAccountId,
                           TransactionsWithoutBorrower(targetName), settings)
               /\ deleteModalState' = ClosedDeleteModal
               /\ lastOp' = Op("deleteBorrower", targetName)
          [] type = "CATEGORY" /\ targetName # "" ->
               /\ SetState(accounts, currentAccountId, allTransactions,
                           [settings EXCEPT !.categories = CategoriesWithout(targetName)])
               /\ deleteModalState' = ClosedDeleteModal
               /\ lastOp' = Op("deleteCategory", targetName)
          [] type = "ALL" ->
               /\ SetState(accounts, currentAccountId,
                           TransactionsOfOtherAccounts, settings)
               /\ deleteModalState' = ClosedDeleteModal
               /\ lastOp' = Op("clearData", currentAccountId)
          [] type = "ACCOUNT" /\ targetId # NoId ->
               LET updatedAccounts == AccountsWithout(targetId)
                   updated == TransactionsWithoutAccount(targetId)
                   throws == currentAccountId = targetId /\ updatedAccounts = <<>>
               IN /\ SetState(updatedAccounts,
                              IF currentAccountId = targetId /\ ~throws
                              THEN updatedAccounts[1].id ELSE currentAccountId,
                              updated, settings)
                  /\ deleteModalState' = IF throws THEN deleteModalState
                                         ELSE ClosedDeleteModal
                  /\ lastOp' = Op("deleteAccount", targetId)
          [] OTHER ->
               /\ UNCHANGED <<accounts, currentAccountId, allTransactions, settings,
                              latestStateRef, isDirtyRef, flights>>
               /\ deleteModalState' = ClosedDeleteModal
               /\ lastOp' = Op("deleteNothing", "")
  /\ UNCHANGED <<prefillData, hasHydrated, lastPersistedRef,
                 loadPc, loadedState, healedState, unloaded, nextId,
                 disk, conn, inTx, handlers>>

-----------------------------------------------------------------------------
(* Application State Cache: flush triggers *)

\* latestStateRef.current before the first "track changes" effect or hydration
NoSnapshot == [undefined |-> TRUE]

\* the snapshot the cache was hydrated with, as a callback set up at that
\* moment would have captured it
CapturedAtHydration ==
  IF healedState = NoSnapshot THEN ReactState ELSE healedState

\* flushState: latestStateRef.current || { accounts, currentAccountId, ... }
LatestOrState ==
  IF latestStateRef = NoSnapshot THEN ReactState ELSE latestStateRef

\* setInterval(() => void flushState(), 5000), set up once hydrated; a tick
\* whose flushState returns at its guards changes nothing
TimerTick ==
  /\ ~unloaded
  /\ UNCHANGED opsLeft
  /\ hasHydrated
  /\ flights' = flushState(FALSE, LatestOrState, isDirtyRef)
  /\ Len(flights') <= MaxFlights
  /\ lastOp' = IF flights' # flights THEN Op("tick", "") ELSE lastOp
  /\ UNCHANGED <<accounts, currentAccountId, allTransactions, settings,
                 deleteModalState, prefillData, hasHydrated, lastPersistedRef,
                 isDirtyRef, latestStateRef, loadPc, loadedState, healedState,
                 unloaded, nextId, disk, conn, inTx, handlers>>

\* handleBeforeUnload: void flushState(true); the page is gone afterwards
Shutdown ==
  /\ ~unloaded
  /\ UNCHANGED opsLeft
  /\ flights' = flushState(TRUE, LatestOrState, isDirtyRef)
  /\ Len(flights') <= MaxFlights
  /\ unloaded' = TRUE
  /\ lastOp' = Op("shutdown", "")
  /\ UNCHANGED <<accounts, currentAccountId, allTransactions, settings,
                 deleteModalState, prefillData, hasHydrated, lastPersistedRef,
                 isDirtyRef, latestStateRef, loadPc, loadedState, healedState,
                 nextId, disk, conn, inTx, handlers>>

-----------------------------------------------------------------------------
(* Application State Cache: loadData *)

\* a healing that gives every record a new id
RECURSIVE SelfHealAll(_, _)
SelfHealAll(txs, n) ==
  IF txs = <<>> THEN <<>>
  ELSE <<[Head(txs) EXCEPT !.id = generateId(n)]>> \o SelfHealAll(Tail(txs), n + 1)

\* transactions.map(t => !t.id ? { ...t, id: generateId() } : t), n ids handed
\* out before
RECURSIVE SelfHeal(_, _)
SelfHeal(txs, n) ==
  IF txs = <<>> THEN <<>>
  ELSE IF Head(txs).id = NoId
       THEN <<[Head(txs) EXCEPT !.id = generateId(n)]>> \o SelfHeal(Tail(txs), n + 1)
       ELSE <<Head(txs)>> \o SelfHeal(Tail(txs), n)

\* loadData from setAccounts(...) to setHydrated(true), and the render after
\* it: the snapshot the effects build is the one just stored as the baseline.
Hydrate(state) ==
  /\ accounts' = state.accounts
  /\ currentAccountId' = state.currentAccountId
  /\ allTransactions' = state.transactions
  /\ settings' = state.settings
  /\ lastPersistedRef' = JSONstringify(state)
  /\ latestStateRef' = state
  /\ hasHydrated' = TRUE
  /\ UNCHANGED isDirtyRef

\* loadData once loadAppState has returned `state`; rest are the db:flush
\* calls outstanding
ContinueLoad(state, rest) ==
  LET modified == MissingIds(state.transactions) > 0
      normalizedState ==
        [state EXCEPT !.transactions = SelfHeal(state.transactions, nextId)]
  IN /\ loadedState' = state
     /\ healedState' = normalizedState
     /\ nextId' = nextId + MissingIds(state.transactions)
     /\ IF modified
        THEN /\ flights' = Append(rest, Flight(normalizedState, "heal"))
             /\ loadPc' = "healing"
             /\ UNCHANGED <<accounts, currentAccountId, allTransactions, settings,
                            lastPersistedRef, latestStateRef, hasHydrated, isDirtyRef>>
        ELSE /\ flights' = rest
             /\ loadPc' = "done"
             /\ Hydrate(normalizedState)

\* loadData up to `await loadAppState()`; getDatabaseStatus only logs
StartLoad ==
  /\ ~unloaded
  /\ UNCHANGED opsLeft
  /\ loadPc = "init"
  /\ loadPc' = "loading"
  /\ lastOp' = Op("startLoad", "")
  /\ UNCHANGED <<accounts, currentAccountId, allTransactions, settings,
                 deleteModalState, prefillData, hasHydrated, lastPersistedRef,
                 isDirtyRef, latestStateRef, loadedState, healedState,
                 unloaded, nextId, flights, disk, conn, inTx, handlers>>

\* db:load answers raw; the gateway's loadAppState normalises the answer
LoadAnswerWith(raw) ==
  /\ ~unloaded
  /\ UNCHANGED opsLeft
  /\ loadPc = "loading"
  /\ LET normalized == NormalizeLoaded(raw)
     IN IF NeedsDefaults(normalized)
        THEN /\ flights' = Append(flights, Flight(buildDefaultState, "defaults"))
             /\ loadPc' = "defaulting"
             /\ UNCHANGED <<accounts, currentAccountId, allTransactions, settings,
                            lastPersistedRef, latestStateRef, hasHydrated,
                            isDirtyRef, loadedState, healedState, nextId>>
        ELSE ContinueLoad(EnsureCurrentAccount(normalized), flights)
  /\ lastOp' = Op("loadAnswer", IF raw.accounts = <<>> THEN "noAccounts" ELSE "")
  /\ UNCHANGED <<deleteModalState, prefillData, unloaded, disk, conn, inTx, handlers>>

\* db:load answers with the committed content, read in one piece
LoadAnswer == LoadAnswerWith(MainLoadAppState(disk))

\* db:load rejects; loadAppState's catch flushes the defaults
LoadReject ==
  /\ ~unloaded
  /\ UNCHANGED opsLeft
  /\ loadPc = "loading"
  /\ flights' = Append(flights, Flight(buildDefaultState, "fallback"))
  /\ loadPc' = "fallback"
  /\ lastOp' = Op("loadReject", "")
  /\ UNCHANGED <<accounts, currentAccountId, allTransactions, settings,
                 deleteModalState, prefillData, hasHydrated, lastPersistedRef,
                 isDirtyRef, latestStateRef, loadedState, healedState,
                 unloaded, nextId, disk, conn, inTx, handlers>>

-----------------------------------------------------------------------------
(* db:flush between renderer and storage process, one transaction per step *)

Remove(seq, i) == SubSeq(seq, 1, i - 1) \o SubSeq(seq, i + 1, Len(seq))

\* flushState after `await persistAppState(snapshot)`:
\*   try { ...; lastPersistedRef.current = serialized; isDirtyRef.current = false }
\*   catch (error) { console.error(...) }
BaselineAfterFlush(ok, serialized) ==
  IF ok THEN serialized ELSE lastPersistedRef
DirtyAfterFlush(ok) ==
  IF ok THEN FALSE ELSE isDirtyRef

\* The renderer's continuation when the db:flush call flights[i] settles.
SettleFlush(i, ok) ==
  LET f == flights[i]
      rest == Remove(flights, i)
      frame == <<accounts, currentAccountId, allTransactions, settings,
                 latestStateRef, hasHydrated>>
  IN IF unloaded
     THEN /\ flights' = rest
          /\ UNCHANGED <<frame, lastPersistedRef, isDirtyRef, loadPc,
                         loadedState, healedState, nextId>>
     ELSE CASE f.origin = "cache" ->
                 /\ flights' = rest
                 /\ lastPersistedRef' = BaselineAfterFlush(ok, f.serialized)
                 /\ isDirtyRef' = DirtyAfterFlush(ok)
                 /\ UNCHANGED <<frame, loadPc, loadedState, healedState, nextId>>
            [] f.origin = "heal" /\ ok ->
                 /\ flights' = rest
                 /\ loadPc' = "done"
                 /\ Hydrate(healedState)
                 /\ UNCHANGED <<loadedState, healedState, nextId>>
            [] f.origin \in {"fallback", "defaults"} /\ ok ->
                 ContinueLoad(buildDefaultState, rest)
            [] f.origin = "defaults" /\ ~ok ->
                 /\ flights' = Append(rest, Flight(buildDefaultState, "fallback"))
                 /\ loadPc' = "fallback"
                 /\ UNCHANGED <<frame, lastPersistedRef, isDirtyRef,
                                loadedState, healedState, nextId>>
            [] OTHER ->
                 \* persistAppState or the fallback flush threw: loadData rejects
                 /\ flights' = rest
                 /\ loadPc' = "failed"
                 /\ UNCHANGED <<frame, lastPersistedRef, isDirtyRef,
                                loadedState, healedState, nextId>>

\* the storage process takes up the calls in the order they were sent
NextToBegin(i) ==
  /\ i \in DOMAIN flights
  /\ flights[i].stage = "sent"
  /\ \A j \in 1..(i - 1) : flights[j].stage # "sent"

\* withTransaction: `await run(database, 'BEGIN')` with no transaction open
FlushBegin(i) ==
  /\ NextToBegin(i)
  /\ UNCHANGED opsLeft
  /\ ~inTx
  /\ inTx' = TRUE
  /\ flights' = [flights EXCEPT ![i].stage = "begun"]
  /\ lastOp' = Op("flushBegin", flights[i].origin)
  /\ UNCHANGED <<accounts, currentAccountId, allTransactions, settings,
                 deleteModalState, prefillData, hasHydrated, lastPersistedRef,
                 isDirtyRef, latestStateRef, loadPc, loadedState, healedState,
                 unloaded, nextId, disk, conn, handlers>>

\* withTransaction: BEGIN while a transaction is open on the connection is an
\* error, thrown before the try block: no ROLLBACK, the call rejects
FlushBeginRefused(i) ==
  /\ NextToBegin(i)
  /\ UNCHANGED opsLeft
  /\ inTx
  /\ SettleFlush(i, FALSE)
  /\ lastOp' = Op("flushFailed", flights[i].origin)
  /\ UNCHANGED <<deleteModalState, prefillData, unloaded, disk, conn, inTx, handlers>>

\* withTransaction: fn() and COMMIT went through; db:flush answers true
FlushCommit(i) ==
  /\ i \in DOMAIN flights
  /\ UNCHANGED opsLeft
  /\ flights[i].stage = "begun"
  /\ ApplyBody(disk, flights[i].snapshot) # Failed
  /\ disk' = ApplyBody(disk, flights[i].snapshot)
  /\ conn' = disk'
  /\ inTx' = FALSE
  /\ SettleFlush(i, TRUE)
  /\ lastOp' = Op("flushOk", flights[i].origin)
  /\ UNCHANGED <<deleteModalState, prefillData, unloaded, handlers>>

\* withTransaction: a statement of fn() or COMMIT failed (a refused insert,
\* an I/O error); ROLLBACK, and the call rejects
FlushRollback(i) ==
  /\ i \in DOMAIN flights
  /\ UNCHANGED opsLeft
  /\ flights[i].stage = "begun"
  /\ inTx' = FALSE
  /\ SettleFlush(i, FALSE)
  /\ lastOp' = Op("flushFailed", flights[i].origin)
  /\ UNCHANGED <<deleteModalState, prefillData, unloaded, disk, conn, handlers>>

-----------------------------------------------------------------------------
(* The cache and the gateway *)

\* a database written by an earlier version: a second account, a record
\* without id, settings stored
LegacyDisk ==
  [accounts |-> <<[id |-> "default_account", name |-> "Main Account", isDefault |-> 1],
                  [id |-> "a2", name |-> "Trip", isDefault |-> 0]>>,
   currentAccountId |-> Some("a2"),
   transactions |->
     <<[id |-> NoId, accountId |-> "a2", borrower |-> "bob", amount |-> 100,
        date |-> 1, dueDate |-> Null, type |-> "LEND", category |-> "Travel",
        tags |-> None],
       [id |-> "t1", accountId |-> "default_account", borrower |-> "bob",
        amount |-> 40, date |-> 2, dueDate |-> Null, type |-> "REPAYMENT",
        category |-> "Rent", tags |-> Some(<<"x">>)]>>,
   appSettings |-> Some([language |-> "en", categories |-> Some(<<"Rent", "Travel">>)])]

InitDisks == {SeededDisk, LegacyDisk}

InitOn(ops, disks) ==
  /\ opsLeft = ops
  /\ accounts = <<>>
  /\ currentAccountId = ""
  /\ allTransactions = <<>>
  /\ settings = [language |-> "en", categories |-> <<>>]
  /\ deleteModalState = ClosedDeleteModal
  /\ prefillData = [isOpen |-> FALSE, id |-> NoId]
  /\ hasHydrated = FALSE
  /\ lastPersistedRef = <<>>
  /\ isDirtyRef = FALSE
  /\ latestStateRef = NoSnapshot
  /\ loadPc = "init"
  /\ loadedState = NoSnapshot
  /\ healedState = NoSnapshot
  /\ unloaded = FALSE
  /\ nextId = 0
  /\ flights = <<>>
  /\ disk \in disks
  /\ conn = disk
  /\ inTx = FALSE
  /\ handlers = <<>>
  /\ lastOp = Op("init", "")

InitOf(ops) == InitOn(ops, InitDisks)

Init == InitOf(MaxUserOps)

Mutation ==
  \/ \E id \in Ids(accounts) : HandleSwitchAccount(id)
  \/ \E name \in AccountNames : HandleCreateAccount(name)
  \/ \E i \in DOMAIN accounts, name \in AccountNames :
       HandleUpdateAccount([accounts[i] EXCEPT !.name = name])
  \/ \E l \in Languages : HandleUpdateSettings([settings EXCEPT !.language = l])
  \/ \E c \in EditableCategories : HandleAddCategory(c)
  \/ \E data \in TxForms, id \in SubmittedIds :
       HandleSaveTransaction(Submitted(data, id))
  \/ \E importData \in ImportPayloads : HandleImportTransactions(importData)
  \/ PerformDelete

Ui ==
  \/ \E id \in Ids(accounts) : RequestDeleteAccount(id)
  \/ \E id \in Ids(ActiveTransactions) : RequestDeleteTransaction(id)
  \/ \E name \in {"bob"} : RequestDeleteBorrower(name)
  \/ \E c \in EditableCategories : RequestDeleteCategory(c)
  \/ RequestClearData
  \/ CancelDelete
  \/ OpenNewTransaction
  \/ \E tx \in Range(ActiveTransactions) : HandleEditTransaction(tx)
  \/ CloseTransactionModal

Storage ==
  \/ \E i \in DOMAIN flights : FlushBegin(i)
  \/ \E i \in DOMAIN flights : FlushBeginRefused(i)
  \/ \E i \in DOMAIN flights : FlushCommit(i)
  \/ \E i \in DOMAIN flights : FlushRollback(i)

Load == StartLoad \/ LoadAnswer \/ LoadReject

Next == Mutation \/ Ui \/ Storage \/ Load \/ TimerTick \/ Shutdown

Spec == Init /\ [][Next]_vars

-----------------------------------------------------------------------------
(* Properties of the cache (under Spec) *)

\* the db:flush calls issued by flushState and not yet settled
CacheFlights == {i \in DOMAIN flights : flights[i].origin = "cache"}

\* C1: at most one db:flush call issued by flushState (after a mutation, on a
\* timer tick or at shutdown) is unsettled at any time.
C1_SingleFlight == Cardinality(CacheFlights) <= 1

\* two calls issued by flushState unsettled together, the second one carrying
\* a later snapshot than the first
C1_ParallelFlights ==
  /\ Cardinality(CacheFlights) = 2
  /\ \E i, j \in CacheFlights : i < j /\ flights[i].serialized # flights[j].serialized

\* CLEAN: loaded, not dirty, and the state in memory is the baseline
Clean ==
  /\ hasHydrated
  /\ ~unloaded
  /\ ~isDirtyRef
  /\ latestStateRef # NoSnapshot
  /\ JSONstringify(latestStateRef) = lastPersistedRef
  /\ JSONstringify(ReactState) = lastPersistedRef

\* C6: a mutation handler run in the CLEAN state leaves the cache not dirty
\* and issues no db:flush when the state it leaves serializes to the baseline,
\* and leaves the cache dirty when it serializes to something else.
C6_NoOpSuppression ==
  [][(Clean /\ Mutation) =>
       IF JSONstringify(ReactState') = lastPersistedRef
       THEN ~isDirtyRef' /\ flights' = flights
       ELSE isDirtyRef']_vars

\* a handler has run in the CLEAN state, set the settings to a new object of
\* the same content, and left the cache clean with nothing in flight
C6_NoOpSeen ==
  /\ Clean
  /\ lastOp.op = "updateSettings"
  /\ flights = <<>>

\* a db:flush call issued by flushState rejects while the page is alive
FailedCacheFlush ==
  /\ ~unloaded
  /\ \E i \in CacheFlights : FlushRollback(i) \/ FlushBeginRefused(i)

\* C7: when a db:flush call issued by flushState fails, the baseline is left
\* as it was and the dirty flag is set afterwards, so that the next timer tick
\* flushes again.
C7_FailureKeepsDirty ==
  [][FailedCacheFlush => (lastPersistedRef' = lastPersistedRef /\ isDirtyRef')]_vars

\* a failed db:flush has left the cache not dirty with a state in memory that
\* is not the baseline and nothing in flight
C7_FailureLeftClean ==
  /\ lastOp = Op("flushFailed", "cache")
  /\ ~unloaded
  /\ ~isDirtyRef
  /\ flights = <<>>
  /\ JSONstringify(ReactState) # lastPersistedRef

\* ids SelfHeal hands out for the records of txs that lack one
HealedIds(before, after) ==
  {after[i].id : i \in {j \in DOMAIN before : before[j].id = NoId}}

\* after is before with an id given to each record that lacked one: every
\* record keeps its place and its other fields, an id present is kept, the
\* ids given are generated ones, distinct, and not in use in before
HealedFrom(before, after) ==
  /\ Len(after) = Len(before)
  /\ \A i \in DOMAIN before :
       /\ after[i].id # NoId
       /\ before[i].id # NoId => after[i] = before[i]
       /\ before[i].id = NoId => /\ [after[i] EXCEPT !.id = NoId] = before[i]
                                 /\ after[i].id \in Range(IdPool)
                                 /\ after[i].id \notin Ids(before)
  /\ Cardinality(HealedIds(before, after)) = MissingIds(before)

\* C8: every record loaded without an id gets exactly one generated id and
\* the others keep theirs; when an id was generated, the cache becomes loaded
\* only in the step in which the db:flush of the healed snapshot commits, and
\* no db:flush of flushState is issued before the cache is loaded.
C8_SelfHeal ==
  /\ [](loadedState # NoSnapshot =>
          /\ HealedFrom(loadedState.transactions, healedState.transactions)
          /\ [healedState EXCEPT !.transactions = loadedState.transactions] = loadedState)
  /\ [](\A i \in CacheFlights : hasHydrated)
  /\ [][(~hasHydrated /\ hasHydrated' /\ MissingIds(loadedState'.transactions) > 0) =>
          /\ \E i \in DOMAIN flights : flights[i].origin = "heal" /\ FlushCommit(i)
          /\ disk' = ApplyBody(disk, healedState)
          /\ allTransactions' = healedState.transactions]_vars

\* the cache is loaded from a database that held a record without id, and
\* the database now holds that record with its generated id
C8_Healed ==
  /\ hasHydrated
  /\ loadedState # NoSnapshot
  /\ MissingIds(loadedState.transactions) > 0
  /\ lastOp = Op("flushOk", "heal")
  /\ \A i \in DOMAIN disk.transactions : disk.transactions[i].id # NoId
  /\ Ids(disk.transactions) = Ids(healedState.transactions)

ConfirmDeleteAccount ==
  /\ deleteModalState.isOpen
  /\ deleteModalState.type = "ACCOUNT"
  /\ PerformDelete

OfOtherAccounts(txs, id) == SelectSeq(txs, LAMBDA t : t.accountId # id)

\* C10: confirming the deletion of account A leaves no account with A's id,
\* no transaction whose accountId is A's id, and the transactions of the
\* other accounts as they were.
C10_Cascade ==
  [][ConfirmDeleteAccount =>
       LET A == deleteModalState.targetId
       IN /\ A \notin Ids(accounts')
          /\ \A i \in DOMAIN allTransactions' : allTransactions'[i].accountId # A
          /\ OfOtherAccounts(allTransactions', A) = OfOtherAccounts(allTransactions, A)
          /\ \A i \in DOMAIN accounts :
               accounts[i].id # A => accounts[i] \in Range(accounts')]_vars

\* an account holding a transaction has been deleted while another account's
\* transaction stayed
C10_Cascaded ==
  /\ lastOp.op = "deleteAccount"
  /\ hasHydrated
  /\ loadedState # NoSnapshot
  /\ \E i \in DOMAIN loadedState.transactions :
       loadedState.transactions[i].accountId = lastOp.arg
  /\ allTransactions # <<>>
  /\ accounts # <<>>

-----------------------------------------------------------------------------
(* The cache while the page lives: the timer keeps ticking, the storage
   process keeps serving, and a db:flush that is attempted again and again
   commits in the end. Nothing is assumed of db:load: the properties stated
   under LiveSpec start from a loaded cache. *)

LiveInit == InitOf(MaxLiveOps)

LiveNext == Mutation \/ Ui \/ Storage \/ Load \/ TimerTick

LiveSpec ==
  /\ LiveInit
  /\ [][LiveNext]_vars
  /\ WF_vars(TimerTick)
  /\ WF_vars(Storage)
  /\ SF_vars(\E i \in DOMAIN flights : FlushCommit(i))

\* the gateway's loadAppState on content d read in one piece
GatewayLoad(d) == EnsureCurrentAccount(NormalizeLoaded(MainLoadAppState(d)))

\* the database holds snapshot snap: a load returns what it would return
\* right after a db:flush of snap
Durable(snap) == GatewayLoad(disk) = GatewayLoad(ApplyBody(disk, snap))

\* no statement of a db:flush of snap is refused
Flushable(snap) == ApplyBody(disk, snap) # Failed

\* C2: once the cache is loaded, whatever mutations have been made, the
\* database eventually holds the in-memory snapshot for good (as long as a
\* db:flush of that snapshot can succeed at all), with the timer and the
\* storage process doing their work and no further mutation.
C2_NoEditLost ==
  [](hasHydrated => <>[](Flushable(ReactState) => Durable(ReactState)))

\* the loaded cache is at rest (not dirty, nothing in flight) with a state in
\* memory that the database does not hold; no timer tick flushes from here
C2_EditStranded ==
  /\ hasHydrated
  /\ ~isDirtyRef
  /\ flights = <<>>
  /\ Flushable(ReactState)
  /\ ~Durable(ReactState)
  /\ ~ENABLED <<TimerTick>>_vars

-----------------------------------------------------------------------------
(* The storage process alone: db:load and db:flush handlers on one
   connection, one SQL statement per step *)

\* snapshots the renderer sends with db:flush
EditedSnapshot ==
  [accounts |-> <<[id |-> "default_account", name |-> "Main Account", isDefault |-> "true"],
                  [id |-> "g1", name |-> "Trip", isDefault |-> Undefined]>>,
   currentAccountId |-> "g1",
   transactions |->
     <<[id |-> "t1", accountId |-> "default_account", borrower |-> "bob",
        amount |-> 70, date |-> 1, dueDate |-> Undefined, type |-> "LEND",
        category |-> "Travel", tags |-> None],
       [id |-> "g2", accountId |-> "g1", borrower |-> "bob", amount |-> 40,
        date |-> 2, dueDate |-> Undefined, type |-> "REPAYMENT",
        category |-> "Travel", tags |-> Some(<<"x">>)]>>,
   settings |-> [language |-> "en", categories |-> <<"Rent">>]]

\* the state after an import that named one new account twice
TwiceImportedSnapshot ==
  [buildDefaultState EXCEPT
     !.accounts = @ \o <<ImportedAccount, ImportedAccount>>]

FlushInputs == {buildDefaultState, EditedSnapshot, TwiceImportedSnapshot}

Parts == {"accounts", "currentAccountId", "transactions", "settings"}

NothingRead ==
  [accounts |-> <<>>, currentAccountId |-> Undefined, transactions |-> <<>>,
   settings |-> None]

\* a handler of the storage process. pos: the statement a db:flush runs next
\* (Len + 1 is COMMIT); pre: the committed content when its BEGIN ran;
\* pending, got: the reads a db:load still waits for and what the others gave
Handler(kind, snapshot, pc, pre) ==
  [kind |-> kind, snapshot |-> snapshot, pc |-> pc, pos |-> 1, pre |-> pre,
   pending |-> IF kind = "load" THEN Parts ELSE {}, got |-> NothingRead]

Requests == Len(handlers)

StoreFrame ==
  UNCHANGED <<accounts, currentAccountId, allTransactions, settings,
              deleteModalState, prefillData, hasHydrated, lastPersistedRef,
              isDirtyRef, latestStateRef, loadPc, loadedState, healedState,
              unloaded, nextId, opsLeft, flights>>

\* a connection on which a second BEGIN joins the open transaction
BeginJoins(open) == FALSE

\* run(database, 'BEGIN') on a connection with a transaction open: SQLite
\* refuses it ("cannot start a transaction within a transaction")
BeginRefused(open) == open

\* ipcMain.handle('db:flush'): applyChanges starts and withTransaction sends
\* BEGIN. With a transaction open on the connection, BEGIN is an error thrown
\* before the try block: the handler rejects and sends no ROLLBACK.
DbFlush(state) ==
  /\ Requests < MaxRequests
  /\ IF BeginRefused(inTx)
     THEN /\ handlers' = Append(handlers, Handler("flush", state, "rejected", disk))
          /\ UNCHANGED inTx
          /\ lastOp' = Op("beginRefused", Requests + 1)
     ELSE /\ handlers' = Append(handlers, Handler("flush", state, "body", disk))
          /\ inTx' = TRUE
          /\ lastOp' = Op("begin", Requests + 1)
  /\ UNCHANGED <<disk, conn>>
  /\ StoreFrame

\* ipcMain.handle('db:load'): loadAppState sends its four reads
DbLoad ==
  /\ Requests < MaxRequests
  /\ handlers' = Append(handlers, Handler("load", NoSnapshot, "reading", disk))
  /\ lastOp' = Op("load", Requests + 1)
  /\ UNCHANGED <<disk, conn, inTx>>
  /\ StoreFrame

\* the statements of handler h's transaction, COMMIT last
Statements(h) == FlushStatements(handlers[h].snapshot) \o <<[op |-> "commit"]>>

RunningFlush(h) ==
  /\ h \in DOMAIN handlers
  /\ handlers[h].kind = "flush"
  /\ handlers[h].pc = "body"

\* one statement of fn() runs on the connection
TxStatement(h) ==
  /\ RunningFlush(h)
  /\ LET st == Statements(h)[handlers[h].pos]
     IN /\ st.op # "commit"
        /\ StatementOk(conn, st)
        /\ conn' = Exec(conn, st)
        /\ handlers' = [handlers EXCEPT ![h].pos = @ + 1]
        /\ lastOp' = Op(st.op, h)
  /\ UNCHANGED <<disk, inTx>>
  /\ StoreFrame

\* a statement of fn(), or COMMIT, fails: a refused insert, or an I/O error
\* that any statement may meet; the catch block takes over
TxStatementFails(h) ==
  /\ RunningFlush(h)
  /\ handlers' = [handlers EXCEPT ![h].pc = "catch"]
  /\ lastOp' = Op("statementFailed", h)
  /\ UNCHANGED <<disk, conn, inTx>>
  /\ StoreFrame

\* COMMIT: the content seen through the connection becomes the committed one
TxCommit(h) ==
  /\ RunningFlush(h)
  /\ Statements(h)[handlers[h].pos].op = "commit"
  /\ disk' = conn
  /\ inTx' = FALSE
  /\ handlers' = [handlers EXCEPT ![h].pc = "resolved"]
  /\ lastOp' = Op("flushOk", h)
  /\ UNCHANGED conn
  /\ StoreFrame

\* an operation that leaves the connection's content as the statements made it
KeepWritten(committed, written) == written

\* ROLLBACK: the connection sees the committed content again
RollbackTo(committed, written) == committed

\* catch (err) { await run(database, 'ROLLBACK'); throw err; }
TxRollback(h) ==
  /\ h \in DOMAIN handlers
  /\ handlers[h].pc = "catch"
  /\ conn' = RollbackTo(disk, conn)
  /\ inTx' = FALSE
  /\ handlers' = [handlers EXCEPT ![h].pc = "rejected"]
  /\ lastOp' = Op("flushFailed", h)
  /\ UNCHANGED disk
  /\ StoreFrame

\* what one read of loadAppState gives on the connection's content
ReadPart(part, d) ==
  CASE part = "accounts" -> ReadAccounts(d)
    [] part = "currentAccountId" -> ReadCurrentAccountId(d)
    [] part = "transactions" -> ReadTransactions(d)
    [] part = "settings" -> ReadSettings(d)

\* one of the four reads of Promise.all runs; with the last one the handler
\* answers
LoadRead(h, part) ==
  /\ h \in DOMAIN handlers
  /\ handlers[h].kind = "load"
  /\ part \in handlers[h].pending
  /\ handlers' = [handlers EXCEPT
                    ![h].got = [@ EXCEPT ![part] = ReadPart(part, conn)],
                    ![h].pending = @ \ {part},
                    ![h].pc = IF handlers[h].pending = {part}
                              THEN "resolved" ELSE "reading"]
  /\ lastOp' = Op(part, h)
  /\ UNCHANGED <<disk, conn, inTx>>
  /\ StoreFrame

StoreInit == InitOf(0)

StoreNext ==
  \/ \E state \in FlushInputs : DbFlush(state)
  \/ DbLoad
  \/ \E h \in DOMAIN handlers : TxStatement(h)
  \/ \E h \in DOMAIN handlers : TxStatementFails(h)
  \/ \E h \in DOMAIN handlers : TxCommit(h)
  \/ \E h \in DOMAIN handlers : TxRollback(h)
  \/ \E h \in DOMAIN handlers, part \in Parts : LoadRead(h, part)

StoreSpec == StoreInit /\ [][StoreNext]_vars

-----------------------------------------------------------------------------
(* Properties of the storage process (under StoreSpec) *)

\* the rows a committed db:flush of snapshot S leaves in the database
RowsOf(S) ==
  [accounts |-> [i \in DOMAIN S.accounts |-> AccountRow(S.accounts[i])],
   currentAccountId |-> Some(S.currentAccountId),
   transactions |-> [i \in DOMAIN S.transactions |-> TransactionRow(S.transactions[i])],
   appSettings |-> Some(StringifySettings(S.settings))]

\* C3: a db:flush whose statement or COMMIT failed leaves the database, as
\* committed and as seen through the connection, with the content it had when
\* the call began, and rejects; a db:flush that commits leaves exactly the
\* rows of its snapshot in all four parts, and resolves; a db:flush refused at
\* BEGIN writes nothing and rejects.
C3_AllOrNothing ==
  [][\A h \in DOMAIN handlers :
       /\ TxRollback(h) =>
            /\ disk' = handlers[h].pre
            /\ conn' = handlers[h].pre
            /\ handlers'[h].pc = "rejected"
       /\ TxCommit(h) =>
            /\ disk' = RowsOf(handlers[h].snapshot)
            /\ conn' = disk'
            /\ handlers'[h].pc = "resolved"
       /\ (handlers[h].kind = "flush" /\ handlers[h].pc = "rejected") =>
            handlers'[h] = handlers[h]]_vars

\* a db:flush has been rolled back after some of its statements had run, on
\* a database that an earlier db:flush had written
C3_RolledBack ==
  /\ lastOp.op = "flushFailed"
  /\ Len(handlers) = 2
  /\ handlers[1].kind = "flush" /\ handlers[1].pc = "resolved"
  /\ handlers[1].snapshot = EditedSnapshot
  /\ handlers[2].kind = "flush" /\ handlers[2].pc = "rejected"
  /\ handlers[2].pos > 3
  /\ disk = RowsOf(EditedSnapshot)
  /\ conn = disk

\* the db:flush whose transaction is open on the connection, if any
OpenFlushes == {f \in DOMAIN handlers : handlers[f].kind = "flush"
                                        /\ handlers[f].pc \in {"body", "catch"}}

\* what a read of a collection may return: all the rows committed, or all the
\* rows of the record list being written
WholeCollections(part) ==
  {ReadPart(part, disk)}
  \cup {ReadPart(part, RowsOf(handlers[f].snapshot)) : f \in OpenFlushes}

\* C4: a read of accounts or of transactions by db:load returns either every
\* row the collection held before the replace or every row of the new list.
C4_NoPartialRead ==
  \A h \in DOMAIN handlers :
    (lastOp.op \in {"accounts", "transactions"} /\ lastOp.arg = h) =>
      handlers[h].got[lastOp.op] \in WholeCollections(lastOp.op)

\* db:load has read the accounts between DELETE FROM accounts and the first
\* INSERT of a db:flush, and got none
C4_EmptiedRead ==
  /\ lastOp.op = "accounts"
  /\ inTx
  /\ handlers[lastOp.arg].got.accounts = <<>>
  /\ disk.accounts # <<>>
  /\ \A f \in OpenFlushes : handlers[f].snapshot.accounts # <<>>

\* a snapshot the cache holds when accounts, pointer and ids are in order
WellFormed(S) ==
  /\ Len(S.accounts) >= 1
  /\ S.currentAccountId \in Ids(S.accounts)
  /\ \A i \in DOMAIN S.transactions : S.transactions[i].id # NoId

\* an account, a transaction as the database gives them back
ReturnedAccount(a) ==
  [a EXCEPT !.isDefault = IF @ = "true" THEN "true" ELSE "false"]
ReturnedTransaction(t) ==
  [t EXCEPT !.dueDate = IF @ = Undefined THEN Null ELSE @,
            !.tags = IF @ = None THEN Some(<<>>) ELSE @]

Count(v, seq) == Cardinality({i \in DOMAIN seq : seq[i] = v})
SameRecords(s1, s2) ==
  /\ Len(s1) = Len(s2)
  /\ \A v \in Range(s1) \cup Range(s2) : Count(v, s1) = Count(v, s2)
NewestFirst(txs) ==
  \A i, j \in DOMAIN txs : i < j => txs[i].date >= txs[j].date

\* the snapshot and the db:flush that has just committed
JustFlushed == handlers[lastOp.arg].snapshot

\* C5 (as the code has it): after a committed db:flush of a well-formed
\* snapshot S, a load returns S's accounts in order with an absent isDefault
\* read as false, S's currentAccountId, S's settings, and S's transactions
\* newest first, each with an absent dueDate read as null and absent tags
\* read as the empty list.
C5_RoundTrip ==
  (lastOp.op = "flushOk" /\ WellFormed(JustFlushed)) =>
    LET S == JustFlushed
        L == GatewayLoad(disk)
    IN /\ L.accounts = [i \in DOMAIN S.accounts |-> ReturnedAccount(S.accounts[i])]
       /\ L.currentAccountId = S.currentAccountId
       /\ L.settings = S.settings
       /\ SameRecords(L.transactions,
                      [i \in DOMAIN S.transactions |->
                         ReturnedTransaction(S.transactions[i])])
       /\ NewestFirst(L.transactions)

\* absent tags read as the empty list, everything else as it was
WithEmptyTags(t) == [t EXCEPT !.tags = IF @ = None THEN Some(<<>>) ELSE @]

\* C5 (as stated): after a committed db:flush of a snapshot S whose
\* transactions all carry an id, a load returns a snapshot equal to S in
\* accounts, currentAccountId, transactions and settings, a transaction
\* without tags coming back with an empty tag list.
C5_RoundTripExact ==
  (lastOp.op = "flushOk"
     /\ \A i \in DOMAIN JustFlushed.transactions : JustFlushed.transactions[i].id # NoId) =>
    GatewayLoad(disk) =
      [JustFlushed EXCEPT !.transactions = [i \in DOMAIN @ |-> WithEmptyTags(@[i])]]

\* db:flush of the edited snapshot has committed and a db:load that began
\* afterwards has answered: a transaction without tags came back with the
\* empty list, and the later transaction came back first
C5_LoadedBack ==
  /\ Len(handlers) = 2
  /\ handlers[1].kind = "flush" /\ handlers[1].pc = "resolved"
  /\ handlers[1].snapshot = EditedSnapshot
  /\ handlers[2].kind = "load" /\ handlers[2].pc = "resolved"
  /\ handlers[2].pre = RowsOf(EditedSnapshot)
  /\ handlers[2].got = MainLoadAppState(disk)
  /\ handlers[2].got.transactions[1].id = "g2"
  /\ handlers[2].got.transactions[2].tags = Some(<<>>)

-----------------------------------------------------------------------------
(* Bulk import: SettingsView.handleFileChange parses the chosen file and
   passes the result to handleImportTransactions *)

\* imports the user runs in one run of ImportSpec
MaxImports == 3

\* statusVal 'REPAYMENT' (or its Chinese label) gives REPAYMENT, anything
\* else LEND
StatusType(status) == IF status = "REPAYMENT" THEN "REPAYMENT" ELSE "LEND"

\* rows of one worksheet that carry no ID cell
RowsWithoutId(rows) == Cardinality({i \in DOMAIN rows : rows[i].ID = NoId})

\* jsonData.map(row => ({ id: idVal ? String(idVal) : generateId(), accountId:
\* targetAccountId, ... })), n ids handed out before
RECURSIVE ParseRows(_, _, _)
ParseRows(rows, targetAccountId, n) ==
  IF rows = <<>> THEN <<>>
  ELSE LET row == Head(rows)
           tx == [id |-> IF row.ID # NoId THEN row.ID ELSE generateId(n),
                  accountId |-> targetAccountId,
                  borrower |-> row.Borrower,
                  amount |-> row.Amount,
                  date |-> row.Date,
                  dueDate |-> IF row.DueDate # "" THEN row.DueDate ELSE Undefined,
                  type |-> StatusType(row.Status),
                  category |-> row.Category,
                  tags |-> Some(row.Tags)]
       IN <<tx>> \o ParseRows(Tail(rows), targetAccountId,
                              IF row.ID # NoId THEN n ELSE n + 1)

\* a lookup by name that finds nothing
AccountsNamedNone(accs, name) == <<>>

\* accounts.find(a => a.name === sheetName): the matches, first one first
AccountsNamed(accs, name) == SelectSeq(accs, LAMBDA a : a.name = name)

\* workbook.SheetNames.forEach(...): the account of a sheet is the first
\* account held under the sheet's name, else the one created for that name
\* earlier in this import, else a new one with a generated id
RECURSIVE ParseSheets(_, _, _, _, _)
ParseSheets(sheets, accs, importedAccounts, importedTransactions, n) ==
  IF sheets = <<>>
  THEN [payload |-> [accounts |-> Some(importedAccounts),
                     transactions |-> importedTransactions],
        minted |-> n]
  ELSE LET sheet == Head(sheets)
           existingAccount == AccountsNamed(accs, sheet.name)
           newlyCreated == AccountsNamed(importedAccounts, sheet.name)
           isNew == existingAccount = <<>> /\ newlyCreated = <<>>
           targetAccountId ==
             IF existingAccount # <<>> THEN existingAccount[1].id
             ELSE IF newlyCreated # <<>> THEN newlyCreated[1].id
             ELSE generateId(n)
           n1 == IF isNew THEN n + 1 ELSE n
       IN ParseSheets(Tail(sheets), accs,
                      IF isNew
                      THEN Append(importedAccounts,
                                  [id |-> targetAccountId, name |-> sheet.name,
                                   isDefault |-> Undefined])
                      ELSE importedAccounts,
                      importedTransactions \o ParseRows(sheet.rows, targetAccountId, n1),
                      n1 + RowsWithoutId(sheet.rows))

\* what handleFileChange passes to onImport, and the number of ids handed out
\* once it has parsed the file: a workbook is parsed against the accounts
\* held, a JSON file is passed on as parsed
ParseFile(file) ==
  IF file.kind = "xlsx"
  THEN ParseSheets(file.sheets, accounts, <<>>, <<>>, nextId)
  ELSE [payload |-> file.json, minted |-> nextId]

\* the files the user picks
ReplacingJson ==
  [name |-> "replace.json", kind |-> "json",
   json |-> [accounts |-> None,
             transactions |-> <<[borrower |-> "bob", amount |-> 70, date |-> 3,
                                 dueDate |-> Undefined, type |-> "LEND",
                                 category |-> "Travel", tags |-> Some(<<>>),
                                 id |-> "t1", accountId |-> Undefined]>>]]

ExportJson ==
  [name |-> "export.json", kind |-> "json",
   json |-> [accounts |-> Some(<<[id |-> "default_account", name |-> "Main Account",
                                  isDefault |-> "true"],
                                 ImportedAccount>>),
             transactions |-> <<[borrower |-> "ann", amount |-> 50, date |-> 4,
                                 dueDate |-> Undefined, type |-> "LEND",
                                 category |-> "Rent", tags |-> Some(<<"y">>),
                                 id |-> "t1", accountId |-> "x1"]>>]]

TwiceNamedJson ==
  [name |-> "twice.json", kind |-> "json",
   json |-> [accounts |-> Some(<<ImportedAccount, ImportedAccount>>),
             transactions |-> <<>>]]

ExportWorkbook ==
  [name |-> "backup.xlsx", kind |-> "xlsx",
   sheets |-> <<[name |-> "Trip",
                 rows |-> <<[ID |-> "t1", Date |-> 5, Borrower |-> "cy",
                             Category |-> "Travel", Tags |-> <<>>,
                             Status |-> "REPAYMENT", Amount |-> 30,
                             DueDate |-> ""]>>]>>]

HandWrittenWorkbook ==
  [name |-> "new.xlsx", kind |-> "xlsx",
   sheets |-> <<[name |-> "Main Account",
                 rows |-> <<[ID |-> NoId, Date |-> 6, Borrower |-> "dan",
                             Category |-> "Rent", Tags |-> <<"z">>,
                             Status |-> "LEND", Amount |-> 20,
                             DueDate |-> ""]>>]>>]

\* records saved from another installation, without its accounts: the record
\* names the account it belonged to there
ForeignJson ==
  [name |-> "foreign.json", kind |-> "json",
   json |-> [accounts |-> None,
             transactions |-> <<[borrower |-> "eve", amount |-> 10, date |-> 7,
                                 dueDate |-> Undefined, type |-> "LEND",
                                 category |-> "Rent", tags |-> Some(<<>>),
                                 id |-> "t2", accountId |-> "a9"]>>]]

ImportFiles ==
  {ReplacingJson, ExportJson, TwiceNamedJson, ExportWorkbook, HandWrittenWorkbook,
   ForeignJson}

\* the operation recorded for an import: a file imported again right after
\* its own import is a re-import
ImportOp(file) ==
  IF lastOp \in {Op("import", file.name), Op("reimport", file.name)}
  THEN Op("reimport", file.name)
  ELSE Op("import", file.name)

\* reader.onload of handleFileChange: parse, then onImport(...)
HandleFileChange(file) ==
  ImportWith(ParseFile(file).payload, ParseFile(file).minted, ImportOp(file))

ImportInit == InitOf(MaxImports)

ImportNext ==
  \/ \E file \in ImportFiles : HandleFileChange(file)
  \/ StartLoad
  \/ LoadAnswer
  \/ Storage

ImportSpec == ImportInit /\ [][ImportNext]_vars

-----------------------------------------------------------------------------
(* Properties of the import (under ImportSpec) *)

\* the positions of the records of txs that carry id
WithId(txs, id) == {i \in DOMAIN txs : txs[i].id = id}

\* the last record of txs that carries id
LastWithId(txs, id) ==
  txs[CHOOSE i \in WithId(txs, id) : \A j \in WithId(txs, id) : j <= i]

\* an imported record as it is to be held: its own field values, in the
\* active account when it names none
Stored(tx) ==
  [tx EXCEPT !.accountId = IF @ \in {Undefined, Null, NoId}
                           THEN currentAccountId ELSE @]

\* ids carried by imported records
CarriedIds(imported) == Ids(imported) \ {NoId}

\* C11: an import leaves, for every id carried by an imported record, exactly
\* one record with that id, holding the field values of the last imported
\* record with that id; a record held before whose id the import does not
\* carry stays in its place unchanged; and the number of records grows by the
\* imported records without id and the carried ids not held before, so that
\* replacing a record leaves the count as it was.
C11_MergeById ==
  [][\A file \in ImportFiles : HandleFileChange(file) =>
       LET imported == ParseFile(file).payload.transactions
       IN /\ \A id \in CarriedIds(imported) :
               /\ Cardinality(WithId(allTransactions', id)) = 1
               /\ \A i \in WithId(allTransactions', id) :
                    allTransactions'[i] = Stored(LastWithId(imported, id))
          /\ \A i \in DOMAIN allTransactions :
               allTransactions[i].id \notin CarriedIds(imported) =>
                 allTransactions'[i] = allTransactions[i]
          /\ Len(allTransactions') =
               Len(allTransactions) + MissingIds(imported)
               + Cardinality(CarriedIds(imported) \ Ids(allTransactions))]_vars

\* the loaded cache held t1 with amount 40 beside another record; after the
\* import of a file carrying t1 with amount 70 it holds one t1, with amount
\* 70, and as many records as before
C11_Replaced ==
  /\ lastOp = Op("import", "replace.json")
  /\ hasHydrated
  /\ \E i \in DOMAIN healedState.transactions :
       healedState.transactions[i].id = "t1" /\ healedState.transactions[i].amount = 40
  /\ Cardinality(WithId(allTransactions, "t1")) = 1
  /\ \A i \in WithId(allTransactions, "t1") : allTransactions[i].amount = 70
  /\ Len(allTransactions) = Len(healedState.transactions)
  /\ Len(allTransactions) = 2

\* the files written by an export: every row carries its ID, every record its
\* id and account, every account its id
Exports == {ExportJson, TwiceNamedJson, ExportWorkbook}

\* C12: importing an export again right after its import leaves the
\* transactions and the accounts as the first import left them.
C12_IdempotentReimport ==
  [][\A file \in Exports :
       (lastOp \in {Op("import", file.name), Op("reimport", file.name)}
          /\ HandleFileChange(file)) =>
         (allTransactions' = allTransactions /\ accounts' = accounts)]_vars

\* the workbook has been imported twice in a row: the account its first
\* import created for the sheet is the only one of that name, and holds the
\* one record of the sheet
C12_Reimported ==
  /\ lastOp = Op("reimport", "backup.xlsx")
  /\ hasHydrated
  /\ Len(AccountsNamed(accounts, "Trip")) = 1
  /\ AccountsNamed(accounts, "Trip")[1].id = "g1"
  /\ Len(allTransactions) = 1
  /\ allTransactions[1].id = "t1"
  /\ allTransactions[1].accountId = "g1"

-----------------------------------------------------------------------------
(* The gateway's loadAppState on what db:load may answer *)

\* databases as earlier runs and versions left them: the pointer absent, the
\* pointer naming an account that is gone, settings stored without categories
UnpointedDisk == [LegacyDisk EXCEPT !.currentAccountId = None]
DanglingDisk == [LegacyDisk EXCEPT !.currentAccountId = Some("gone")]
PlainSettingsDisk ==
  [SeededDisk EXCEPT !.appSettings = Some([language |-> "en", categories |-> None])]

GatewayDisks ==
  {SeededDisk, LegacyDisk, UnpointedDisk, DanglingDisk, PlainSettingsDisk}

\* what db:load may answer on content d: the four parts as committed, or the
\* accounts read while a db:flush has emptied the table and not yet refilled
\* it (the reads share the connection of the open transaction)
AnswersOn(d) ==
  {MainLoadAppState(d), [MainLoadAppState(d) EXCEPT !.accounts = <<>>]}

GatewayInit == InitOn(0, GatewayDisks)

GatewayNext ==
  \/ StartLoad
  \/ \E raw \in AnswersOn(disk) : LoadAnswerWith(raw)
  \/ LoadReject
  \/ \E i \in DOMAIN flights : FlushBegin(i)
  \/ \E i \in DOMAIN flights : FlushCommit(i)
  \/ \E i \in DOMAIN flights : FlushRollback(i)
  \/ Shutdown

GatewaySpec == GatewayInit /\ [][GatewayNext]_vars

-----------------------------------------------------------------------------
(* Properties of the gateway's load (under GatewaySpec) *)

\* the gateway's loadAppState has rejected: loadData stopped before
\* loadAppState gave it a state
LoadRejected == loadPc = "failed" /\ loadedState = NoSnapshot

\* C13: the gateway's loadAppState never rejects, whichever storage call
\* failed; and when db:load failed, what it returns (to a page still alive)
\* is the default snapshot, which the database then holds.
C13_LoadNeverFails ==
  /\ ~LoadRejected
  /\ (lastOp = Op("flushOk", "fallback") /\ ~unloaded) =>
       (loadedState = buildDefaultState /\ disk = RowsOf(buildDefaultState))

\* db:load failed and the db:flush of the defaults failed too: loadAppState
\* has rejected and the cache is not loaded
C13_FallbackFailed ==
  /\ LoadRejected
  /\ lastOp = Op("flushFailed", "fallback")
  /\ ~hasHydrated
  /\ flights = <<>>

\* C14: when db:load answers with no account, loadAppState does not return
\* before it has flushed the default snapshot, and what it returns then is the
\* default snapshot (the seed account, currentAccountId naming it, no
\* transaction, the default settings), which the database holds, whatever
\* transactions and settings the answer carried.
C14_NoAccountsGiveDefaults ==
  /\ lastOp = Op("loadAnswer", "noAccounts") =>
       /\ loadedState = NoSnapshot
       /\ \E i \in DOMAIN flights : flights[i] = Flight(buildDefaultState, "defaults")
  /\ (lastOp = Op("flushOk", "defaults") /\ ~unloaded) =>
       (loadedState = buildDefaultState /\ disk = RowsOf(buildDefaultState))

\* db:load answered with no account beside stored transactions and settings:
\* loadAppState has returned the seed account with those transactions and
\* settings, and has sent no db:flush of the defaults
C14_StoredReturned ==
  /\ lastOp = Op("loadAnswer", "noAccounts")
  /\ loadedState # NoSnapshot
  /\ loadedState.accounts = buildDefaultState.accounts
  /\ loadedState.transactions # <<>>
  /\ loadedState.settings # buildDefaultState.settings
  /\ \A i \in DOMAIN flights : flights[i].origin # "defaults"
  /\ disk.transactions # <<>>

\* the pointer of answer raw names none of the accounts accs
PointsNowhere(raw, accs) ==
  raw.currentAccountId \in {Undefined, Null, NoId}
    \/ raw.currentAccountId \notin Ids(accs)

\* C15: whatever db:load answers, loadAppState returns (it neither rejects
\* nor falls back to the defaults) a state whose currentAccountId is the id of
\* one of its accounts: the first one's when the answer's pointer is absent or
\* names none of them, the answer's pointer otherwise.
C15_PointerValid ==
  /\ [](loadedState # NoSnapshot =>
          loadedState.currentAccountId \in Ids(loadedState.accounts))
  /\ [][\A raw \in AnswersOn(disk) : LoadAnswerWith(raw) =>
          /\ loadedState' # NoSnapshot
          /\ loadPc' \in {"done", "healing"}
          /\ \A i \in DOMAIN flights' :
               flights'[i].origin \notin {"fallback", "defaults"}
          /\ loadedState'.currentAccountId =
               IF PointsNowhere(raw, loadedState'.accounts)
               THEN loadedState'.accounts[1].id
               ELSE raw.currentAccountId]_vars

\* the database named an account that is gone; loadAppState has returned
\* the stored accounts with the pointer on the first of them
C15_PointerRewritten ==
  /\ lastOp = Op("loadAnswer", "")
  /\ disk.currentAccountId = Some("gone")
  /\ Len(loadedState.accounts) = 2
  /\ loadedState.currentAccountId = "default_account"
  /\ loadedState.accounts[1].id = "default_account"
  /\ loadPc = "healing"

-----------------------------------------------------------------------------
(* Further properties of the cache (under Spec) *)

\* performDelete runs for the category the confirm dialog names
ConfirmDeleteCategory ==
  /\ deleteModalState.isOpen
  /\ deleteModalState.type = "CATEGORY"
  /\ deleteModalState.targetName # ""
  /\ PerformDelete

\* C16: confirming the deletion of a category leaves settings.categories
\* without that label and with its other labels in order, and leaves every
\* transaction, those of that category included, and their number as they
\* were; accounts, pointer and language are not touched either.
C16_CategoryDeleteKeepsTransactions ==
  [][ConfirmDeleteCategory =>
       LET label == deleteModalState.targetName
       IN /\ label \notin Range(settings'.categories)
          /\ settings'.categories =
               SelectSeq(settings.categories, LAMBDA c : c # label)
          /\ settings'.language = settings.language
          /\ allTransactions' = allTransactions
          /\ accounts' = accounts
          /\ currentAccountId' = currentAccountId]_vars

\* the label Travel has been deleted from the settings of a loaded cache
\* while a transaction of category Travel is held, and still is
C16_LabelOrphaned ==
  /\ lastOp = Op("deleteCategory", "Travel")
  /\ hasHydrated
  /\ "Travel" \notin Range(settings.categories)
  /\ \E i \in DOMAIN allTransactions : allTransactions[i].category = "Travel"

\* the positions of the active account's records of one type
ActivePositions(type) ==
  {i \in DOMAIN allTransactions :
     allTransactions[i].accountId = currentAccountId /\ allTransactions[i].type = type}

\* the sum of the amounts of the records of txs at the positions S
RECURSIVE SumOver(_, _)
SumOver(txs, S) ==
  IF S = {} THEN 0
  ELSE LET i == CHOOSE j \in S : TRUE
       IN txs[i].amount + SumOver(txs, S \ {i})

\* C17: total lent is the sum of the amounts of the active account's LEND
\* records, total repaid that of its REPAYMENT records, and outstanding is
\* their difference, negative when more was repaid than lent; records of
\* other accounts count for nothing.
C17_Totals ==
  /\ stats.totalLent = SumOver(allTransactions, ActivePositions("LEND"))
  /\ stats.totalRepaid = SumOver(allTransactions, ActivePositions("REPAYMENT"))
  /\ stats.outstanding = SumOver(allTransactions, ActivePositions("LEND"))
                         - SumOver(allTransactions, ActivePositions("REPAYMENT"))

\* the active account holds a LEND of 100 and a REPAYMENT of 40: 60 is
\* outstanding
C17_SixtyOutstanding ==
  /\ hasHydrated
  /\ Len(ActiveTransactions) = 2
  /\ {ActiveTransactions[i].type : i \in DOMAIN ActiveTransactions} = {"LEND", "REPAYMENT"}
  /\ stats = [totalLent |-> 100, totalRepaid |-> 40, outstanding |-> 60]

\* this step sends a db:flush call of flushState
IssuedFlush ==
  /\ Len(flights') = Len(flights) + 1
  /\ flights'[Len(flights')].origin = "cache"

\* C18: every db:flush call sent by flushState carries the state in memory
\* as it is when flushState runs, the mutation that triggered it included,
\* whether the call comes from the effect after a mutation, from the timer
\* or from beforeunload.
C18_FlushesCurrentState ==
  [][IssuedFlush =>
       LET f == flights'[Len(flights')]
       IN /\ f.snapshot = ReactState'
          /\ f.serialized = JSONstringify(ReactState')]_vars

\* a timer tick has sent a db:flush call: it carries the state in memory,
\* which is neither the state the cache was hydrated with nor the baseline
C18_TickSentLatest ==
  /\ lastOp = Op("tick", "")
  /\ flights # <<>>
  /\ flights[Len(flights)].stage = "sent"
  /\ flights[Len(flights)].snapshot = ReactState
  /\ ReactState # healedState
  /\ JSONstringify(ReactState) # lastPersistedRef

\* C19: whenever the cache is loaded and no db:flush of flushState is in
\* flight, a clear dirty flag means that the state in memory serializes to
\* the baseline.
C19_NotDirtyMeansBaseline ==
  (hasHydrated /\ ~unloaded /\ CacheFlights = {} /\ ~isDirtyRef) =>
    JSONstringify(ReactState) = lastPersistedRef

\* a db:flush has succeeded after the state in memory had been changed back
\* to what it was at hydration: nothing is in flight, the dirty flag is
\* clear, and the baseline is not the state in memory
C19_CleanButDifferent ==
  /\ lastOp = Op("flushOk", "cache")
  /\ hasHydrated
  /\ ~unloaded
  /\ flights = <<>>
  /\ ~isDirtyRef
  /\ ReactState = healedState
  /\ JSONstringify(ReactState) # lastPersistedRef

\* C20: beforeunload on a loaded cache sends a db:flush of the state in
\* memory, dirty or not; a timer tick or a mutation sends one only with the
\* dirty flag set and a state in memory that does not serialize to the
\* baseline.
C20_ForcedAndGuarded ==
  [][/\ (Shutdown /\ hasHydrated) =>
          flights' = Append(flights, Flight(ReactState, "cache"))
     /\ ((TimerTick \/ Mutation) /\ IssuedFlush) =>
          (isDirtyRef' /\ JSONstringify(ReactState') # lastPersistedRef)]_vars

\* beforeunload has sent a db:flush of a clean cache: the call carries the
\* baseline itself
C20_CleanShutdownFlushed ==
  /\ lastOp = Op("shutdown", "")
  /\ hasHydrated
  /\ ~isDirtyRef
  /\ Len(flights) = 1
  /\ flights[1].origin = "cache"
  /\ flights[1].serialized = lastPersistedRef
  /\ flights[1].snapshot = ReactState

-----------------------------------------------------------------------------
(* Properties of the records held in memory *)

\* every record of txs names an account of accs
AllOwned(txs, accs) == \A i \in DOMAIN txs : txs[i].accountId \in Ids(accs)

\* the snapshot the cache was loaded with has every record in a live account
LoadedOwned ==
  /\ hasHydrated
  /\ AllOwned(healedState.transactions, healedState.accounts)

\* C21: once the cache is loaded with a snapshot in which every transaction
\* names an account of the collection, every transaction held in memory names
\* an account of the collection, whatever was imported since.
C21_NoOrphans == LoadedOwned => AllOwned(allTransactions, accounts)

\* the loaded cache held no orphan; the import of a file whose record names
\* an account that is neither held nor in the file left that record held
C21_Orphaned ==
  /\ lastOp = Op("import", "foreign.json")
  /\ LoadedOwned
  /\ \E i \in DOMAIN allTransactions :
       /\ allTransactions[i].id = "t2"
       /\ allTransactions[i].accountId = "a9"
       /\ "a9" \notin Ids(accounts)

UniqueIds(txs) == \A i, j \in DOMAIN txs : txs[i].id = txs[j].id => i = j

\* C23: the generator handing out only ids not in use, no two transactions
\* held in memory carry the same id, whichever accounts they belong to, once
\* the cache is loaded and whatever was created, edited, deleted or imported
\* since; and none is held without an id.
C23_UniqueIds ==
  hasHydrated => (UniqueIds(allTransactions) /\ NoId \notin Ids(allTransactions))

\* the legacy database was loaded and its record without id healed; then a
\* record carrying the id of the other stored record was imported while the
\* active account was not that record's: two records are held, in one
\* account now, under two ids
C23_HealedThenImported ==
  /\ hasHydrated
  /\ lastOp.op = "import"
  /\ MissingIds(loadedState.transactions) > 0
  /\ Len(allTransactions) = 2
  /\ allTransactions[1].accountId = allTransactions[2].accountId
  /\ Ids(allTransactions) = {"g1", "t1"}

-----------------------------------------------------------------------------
(* Properties of the imported accounts (under ImportSpec) *)

\* the accounts an import payload carries
Incoming(payload) == IF payload.accounts = None THEN <<>> ELSE payload.accounts[1]

\* no two entries of accs carry the same id
UniqueAccountIds(accs) == \A i, j \in DOMAIN accs : accs[i].id = accs[j].id => i = j

\* C24: an import leaves the accounts held before in their places, unchanged;
\* what it adds after them are imported accounts, an imported account being
\* added exactly when its id is not the id of an account held, whatever its
\* name; and the collection it leaves has no two accounts with one id.
C24_AccountsAppendedById ==
  [][\A file \in ImportFiles : HandleFileChange(file) =>
       LET incoming == Incoming(ParseFile(file).payload)
           n == Len(accounts)
           added == SubSeq(accounts', n + 1, Len(accounts'))
       IN /\ Len(accounts') >= n
          /\ SubSeq(accounts', 1, n) = accounts
          /\ Range(added) \subseteq Range(incoming)
          /\ \A i \in DOMAIN incoming :
               incoming[i] \in Range(added) <=> incoming[i].id \notin Ids(accounts)
          /\ UniqueAccountIds(accounts) => UniqueAccountIds(accounts')]_vars

\* the loaded cache held one account; the import of a file that lists one
\* new account twice left two entries with that account's id
C24_SameIdTwice ==
  /\ lastOp = Op("import", "twice.json")
  /\ hasHydrated
  /\ UniqueAccountIds(healedState.accounts)
  /\ Cardinality({i \in DOMAIN accounts : accounts[i].id = "x1"}) = 2

-----------------------------------------------------------------------------
(* Properties of the transaction handlers (under Spec) *)

\* the fields of a record other than its id and its account
FieldsOf(tx) == [f \in DOMAIN tx \ {"id", "accountId"} |-> tx[f]]

\* C25: saving an edit leaves as many records as before, the edited record in
\* its place with its id and its accountId and with the submitted values in
\* its other fields, and every other record as it was; saving a new
\* transaction puts one record before the others, with a generated id that
\* no record held carries (not the id the submitted data may carry), the
\* active account's id and the submitted values, and leaves the others as
\* they were.
C25_EditAndCreate ==
  [][\A data \in TxForms, id \in SubmittedIds :
       HandleSaveTransaction(Submitted(data, id)) =>
         IF prefillData.id # NoId
         THEN /\ Len(allTransactions') = Len(allTransactions)
              /\ \A i \in DOMAIN allTransactions :
                   IF allTransactions[i].id = prefillData.id
                   THEN /\ allTransactions'[i].id = allTransactions[i].id
                        /\ allTransactions'[i].accountId = allTransactions[i].accountId
                        /\ FieldsOf(allTransactions'[i]) = data
                   ELSE allTransactions'[i] = allTransactions[i]
         ELSE /\ Len(allTransactions') = Len(allTransactions) + 1
              /\ Tail(allTransactions') = allTransactions
              /\ Head(allTransactions').id \in Range(IdPool)
              /\ Head(allTransactions').id \notin Ids(allTransactions) \cup {id}
              /\ Head(allTransactions').accountId = currentAccountId
              /\ FieldsOf(Head(allTransactions')) = data]_vars

\* the edit dialog was opened on a record before the stored snapshot was
\* loaded; saved after the load, the edit has changed the stored record of
\* that id, which belongs to an account that is not the active one, and left
\* it in its account
C25_EditedInOtherAccount ==
  /\ lastOp = Op("saveEdit", "t1")
  /\ hasHydrated
  /\ currentAccountId = "a2"
  /\ \E i \in DOMAIN allTransactions :
       /\ allTransactions[i].id = "t1"
       /\ allTransactions[i].accountId = "default_account"
       /\ allTransactions[i].category = "Travel"
  /\ \E i \in DOMAIN loadedState.transactions :
       /\ loadedState.transactions[i].id = "t1"
       /\ loadedState.transactions[i].category = "Rent"

\* performDelete runs for the borrower, or for the clearing, the confirm
\* dialog names
ConfirmDeleteBorrower ==
  /\ deleteModalState.isOpen
  /\ deleteModalState.type = "BORROWER"
  /\ deleteModalState.targetName # ""
  /\ PerformDelete
ConfirmClearData ==
  /\ deleteModalState.isOpen
  /\ deleteModalState.type = "ALL"
  /\ PerformDelete

\* the records held are the records held before without those of the active
\* account that are in `doomed`: each of the others is held as often as
\* before, and the records of the other accounts are in their order
RemovedFromActive(doomed) ==
  /\ \A v \in Range(allTransactions) \cup Range(allTransactions') :
       Count(v, allTransactions') =
         IF v.accountId = currentAccountId /\ v \in doomed
         THEN 0 ELSE Count(v, allTransactions)
  /\ OfOtherAccounts(allTransactions', currentAccountId)
       = OfOtherAccounts(allTransactions, currentAccountId)

\* C26: confirming a deletion by borrower removes the records of the active
\* account with that borrower and no other; confirming the clearing removes
\* the records of the active account and no other; both leave the accounts,
\* the active-account pointer and the settings as they were.
C26_ScopedToActiveAccount ==
  [][/\ ConfirmDeleteBorrower =>
          RemovedFromActive({v \in Range(allTransactions) :
                               v.borrower = deleteModalState.targetName})
     /\ ConfirmClearData => RemovedFromActive(Range(allTransactions))
     /\ (ConfirmDeleteBorrower \/ ConfirmClearData) =>
          /\ accounts' = accounts
          /\ currentAccountId' = currentAccountId
          /\ settings' = settings]_vars

\* two accounts each held a record of borrower bob; the deletion of bob in
\* the active account has left the other account's record
C26_OtherAccountKept ==
  /\ lastOp = Op("deleteBorrower", "bob")
  /\ hasHydrated
  /\ Len(healedState.transactions) = 2
  /\ Len(allTransactions) = 1
  /\ allTransactions[1].borrower = "bob"
  /\ allTransactions[1].accountId # currentAccountId
  /\ allTransactions[1].accountId \in Ids(accounts)

\* C27: no operation on the loaded cache leaves a transaction under an id
\* that was held before with an accountId other than the one held before.
C27_AccountNeverChanges ==
  [][hasHydrated =>
       \A i \in DOMAIN allTransactions, j \in DOMAIN allTransactions' :
         allTransactions'[j].id = allTransactions[i].id =>
           allTransactions'[j].accountId = allTransactions[i].accountId]_vars

\* the stored record t1 belonged to default_account; the import of a record
\* with id t1 that names no account, run while a2 was active, has left t1 in
\* a2
C27_MovedByImport ==
  /\ lastOp.op = "import"
  /\ hasHydrated
  /\ currentAccountId = "a2"
  /\ \E i \in DOMAIN healedState.transactions :
       /\ healedState.transactions[i].id = "t1"
       /\ healedState.transactions[i].accountId = "default_account"
  /\ \E i \in DOMAIN allTransactions :
       /\ allTransactions[i].id = "t1"
       /\ allTransactions[i].accountId = "a2"
  /\ "default_account" \in Ids(accounts)

-----------------------------------------------------------------------------
(* Properties of the cache before it is loaded (under Spec) *)

\* a db:flush sent by loadData or by the gateway's loadAppState commits
LoadFlushCommits ==
  \E i \in DOMAIN flights :
    flights[i].origin \in {"heal", "fallback", "defaults"} /\ FlushCommit(i)

\* C28: while the cache is not loaded, a mutation handler, a timer tick and
\* beforeunload send no db:flush, and the database is written only by the
\* flushes of the load itself; the cache sends nothing before it is loaded,
\* so the empty state it starts with is never written.
C28_NoFlushBeforeLoad ==
  /\ [][(~hasHydrated /\ (Mutation \/ Ui \/ TimerTick \/ Shutdown)) =>
          flights' = flights]_vars
  /\ [][~hasHydrated => (disk' = disk \/ LoadFlushCommits)]_vars
  /\ [](~hasHydrated => \A i \in DOMAIN flights : flights[i].origin # "cache")

\* the page was closed while db:load was outstanding, after an import had
\* changed the state in memory: nothing was sent, the database is as it was
C28_ClosedWhileLoading ==
  /\ lastOp = Op("shutdown", "")
  /\ ~hasHydrated
  /\ loadPc = "loading"
  /\ accounts # <<>>
  /\ flights = <<>>
  /\ disk \in InitDisks

-----------------------------------------------------------------------------
(* Properties of db:flush calls that overlap (under StoreSpec) *)

\* the db:flush handlers that have answered true
ResolvedFlushes ==
  {h \in DOMAIN handlers : handlers[h].kind = "flush" /\ handlers[h].pc = "resolved"}

\* C29: whatever db:flush calls have been taken up, one after the other or
\* while another one's transaction was open, the committed content is in all
\* four parts the rows of the snapshot of a call that answered true, or the
\* content before the first call when none did; with no transaction open the
\* connection shows the committed content; and a call answers true only in
\* the step that commits all the rows of its snapshot.
C29_OverlapAtomic ==
  /\ [](handlers # <<>> =>
          IF ResolvedFlushes = {}
          THEN disk = handlers[1].pre
          ELSE \E h \in ResolvedFlushes : disk = RowsOf(handlers[h].snapshot))
  /\ [](~inTx => conn = disk)
  /\ [][\A h \in DOMAIN handlers :
          (handlers[h].kind = "flush" /\ handlers[h].pc # "resolved"
             /\ handlers'[h].pc = "resolved") =>
            /\ handlers[h].pos = Len(Statements(h))
            /\ disk' = RowsOf(handlers[h].snapshot)]_vars

\* a second db:flush, with another snapshot, arrived while the transaction
\* of the first was open: it was refused and rejected, the first committed,
\* and the database holds the first one's snapshot
C29_Overlapped ==
  /\ Len(handlers) = 2
  /\ handlers[1].kind = "flush" /\ handlers[1].pc = "resolved"
  /\ handlers[2].kind = "flush" /\ handlers[2].pc = "rejected"
  /\ handlers[2].pos = 1
  /\ handlers[2].pre = handlers[1].pre
  /\ handlers[2].snapshot # handlers[1].snapshot
  /\ disk = RowsOf(handlers[1].snapshot)
  /\ disk # handlers[1].pre
  /\ conn = disk

-----------------------------------------------------------------------------
(* The start of the page: loadData runs, db:load answers or rejects, and the
   storage process settles every db:flush it is sent. The page is not closed. *)

StartupSpec ==
  /\ LiveInit
  /\ [][LiveNext]_vars
  /\ WF_vars(Load)
  /\ WF_vars(Storage)

\* C30: with db:load and every db:flush returning, successfully or with an
\* error, the cache is eventually loaded: hasHydrated is set, the cache is
\* not dirty and there is at least one account.
C30_StartupCompletes ==
  <>(hasHydrated /\ ~isDirtyRef /\ accounts # <<>>)

\* the db:flush of the self-healed ids failed: loadData has rejected after
\* loadAppState gave it a state, hasHydrated was never set, nothing is in
\* flight and no step of the load is left to take
C30_StuckLoading ==
  /\ lastOp = Op("flushFailed", "heal")
  /\ loadPc = "failed"
  /\ loadedState # NoSnapshot
  /\ ~hasHydrated
  /\ ~unloaded
  /\ flights = <<>>
  /\ ~ENABLED <<Load>>_vars

====
